---------------------------- MODULE Spec2Model ----------------------------
(***************************************************************************)
(* Model of the telemetry core of AiaeroConnectDashboard                   *)
(* (src/telemetry/views.py): the record normalizer (_shape_to_list), the   *)
(* timestamp parser and sanitizer, the multi-source aggregation read       *)
(* (api_current_recent) with the local ingest write (ingest_vitals), and   *)
(* the two trip segmenters (api_tracking, and                              *)
(* _build_trip_segments_from_readings behind api_tracking_download).       *)
(*                                                                         *)
(* Conventions of the model                                                *)
(*  - An instant is an integer count of minutes. Raw epoch numbers are     *)
(*    counted in the same unit. Y2010 is the instant 2010-01-01T00:00Z.    *)
(*  - A Python/JSON value is a record tagged by its field t:               *)
(*      null, num (field n), str (field s), list (field xs),               *)
(*      obj (field kv, the key/value pairs in insertion order),            *)
(*      dt (a datetime object, field n).                                   *)
(*  - The content of a string is a record tagged by its field c:           *)
(*      chars (field ch, the characters), iso (field n, the ISO-8601 text  *)
(*      with a zone of the instant n), json (field toks, a JSON text as    *)
(*      its token sequence);                                               *)
(*    strptime texts are tagged date (fields fmt and day).                 *)
(*  - Positions lie on one meridian, a whole number of grid steps apart;   *)
(*    a distance is a whole number of metres, and a distance rounded to    *)
(*    two decimals of a kilometre a whole number of 10 m units.            *)
(***************************************************************************)
EXTENDS Integers, Sequences, FiniteSets, TLC

VARIABLES
    \* --- record normalizer, applied to one upstream payload
    sh_in,        \* the payload X handed to _shape_to_list
    sh_out,       \* _shape_to_list(X), or NotRun
    sh_env,       \* _shape_to_list({"body": json.dumps(X)}), or NotRun
    \* --- aggregation read and local ingest write
    now,          \* dj_tz.now(), in minutes
    RECENT_CACHE, \* _RECENT_CACHE: the entries in insertion order, one per key
    settings,     \* which upstream URLs django.conf.settings configures
    call,         \* the last request handled: its handler, parameters and locals
    response,     \* the HTTP response to that request
    \* --- tracking read and tracking export
    readings,     \* the rows of the Reading table
    trk,          \* the last tracking request handled (api_tracking or
                  \* api_tracking_download): its parameters, locals and response
    \* --- timestamp sanitizer, applied to one raw timestamp
    san_in,       \* the value handed to _parse_ts_any
    san_out,      \* _sanitize_ts(_parse_ts_any(san_in)), or NotRun
    \* --- ingest writes and an aggregation read as concurrent threads
    glob,         \* the binding of the module global _RECENT_CACHE
    heap,         \* the entry dicts the ingest threads have created
    wr,           \* the frame of each ingest_vitals thread
    rd,           \* the frame of the api_current_recent thread
    \* --- CurrentVital snapshot and the Excel logger
    current_vitals,  \* the rows of the CurrentVital table
    last_written_ts, \* the logger's dict: device -> the last cv.ts it wrote
    sheet,           \* the rows the logger has saved to workbooks, in order
    lg,              \* the logger's position: asleep or inside the for loop
    locked           \* the devices whose workbook cannot be saved

vars == <<sh_in, sh_out, sh_env, now, RECENT_CACHE, settings, call, response,
          readings, trk, san_in, san_out, glob, heap, wr, rd,
          current_vitals, last_written_ts, sheet, lg, locked>>

sh_vars == <<sh_in, sh_out, sh_env>>
agg_vars == <<now, RECENT_CACHE, settings, call, response>>
trk_vars == <<readings, trk, current_vitals>>
log_vars == <<last_written_ts, sheet, lg, locked>>
san_vars == <<san_in, san_out>>
race_vars == <<glob, heap, wr, rd>>

NotRun == [t |-> "notrun"]

-----------------------------------------------------------------------------
(* Sequences *)

SeqRange(s) == {s[i] : i \in 1..Len(s)}

RECURSIVE Concat(_)
Concat(ss) == IF ss = <<>> THEN <<>> ELSE Head(ss) \o Concat(Tail(ss))

RECURSIVE SumSeq(_)
SumSeq(s) == IF s = <<>> THEN 0 ELSE Head(s) + SumSeq(Tail(s))

-----------------------------------------------------------------------------
(* Python / JSON values *)

JNull == [t |-> "null"]
JNum(n) == [t |-> "num", n |-> n]
JStr(c) == [t |-> "str", s |-> c]
JList(xs) == [t |-> "list", xs |-> xs]
JObj(kv) == [t |-> "obj", kv |-> kv]
DateTime(n) == [t |-> "dt", n |-> n]

Chars(ch) == [c |-> "chars", ch |-> ch]
Iso(n) == [c |-> "iso", n |-> n]
Txt(ch) == JStr(Chars(ch))
IsoStr(n) == JStr(Iso(n))
EmptyStr == Txt(<<>>)

IsNone(v) == v.t = "null"
IsStr(v) == v.t = "str"
IsDict(v) == v.t = "obj"
IsList(v) == v.t = "list"

\* the keys of a dict, in order
Keys(o) == [i \in 1..Len(o.kv) |-> o.kv[i][1]]
\* list(o.values())
Values(o) == [i \in 1..Len(o.kv) |-> o.kv[i][2]]
\* k in o
HasKey(o, k) == \E i \in 1..Len(o.kv) : o.kv[i][1] = k
\* o.get(k): the value under k, None when the key is absent
Get(o, k) ==
    IF HasKey(o, k)
    THEN o.kv[CHOOSE i \in 1..Len(o.kv) : o.kv[i][1] = k][2]
    ELSE JNull

DigitChars == <<"0", "1", "2", "3", "4", "5", "6", "7", "8", "9">>
DigitOf(ch) == (CHOOSE i \in 1..10 : DigitChars[i] = ch) - 1
IsDigitChar(ch) == \E i \in 1..10 : DigitChars[i] = ch

\* str.isdigit(): non-empty and every character a digit
isdigit(ch) == ch # <<>> /\ \A i \in 1..Len(ch) : IsDigitChar(ch[i])

\* the number the digits spell
RECURSIVE DigitsValue(_)
DigitsValue(ch) ==
    IF ch = <<>> THEN 0
    ELSE 10 * DigitsValue(SubSeq(ch, 1, Len(ch) - 1)) + DigitOf(ch[Len(ch)])

\* the decimal digits of n >= 0
RECURSIVE DigitsOf(_)
DigitsOf(n) ==
    IF n < 10 THEN <<DigitChars[n + 1]>>
    ELSE DigitsOf(n \div 10) \o <<DigitChars[(n % 10) + 1]>>

\* str.strip() on characters
RECURSIVE LStrip(_)
LStrip(ch) == IF ch # <<>> /\ Head(ch) = " " THEN LStrip(Tail(ch)) ELSE ch
RECURSIVE RStrip(_)
RStrip(ch) ==
    IF ch # <<>> /\ ch[Len(ch)] = " " THEN RStrip(SubSeq(ch, 1, Len(ch) - 1)) ELSE ch
StripChars(ch) == RStrip(LStrip(ch))

\* s.strip() for a string value s
strip(s) == IF s.s.c = "chars" THEN Txt(StripChars(s.s.ch)) ELSE s

\* Python truthiness of a value
Truthy(v) ==
    CASE v.t = "null" -> FALSE
      [] v.t = "num" -> v.n # 0
      [] v.t = "str" -> v # EmptyStr
      [] v.t = "list" -> v.xs # <<>>
      [] v.t = "obj" -> v.kv # <<>>
      [] OTHER -> TRUE

\* a or b
Or(a, b) == IF Truthy(a) THEN a ELSE b

-----------------------------------------------------------------------------
(* JSON text: json.dumps and json.loads                                      *)
(* A JSON text is its sequence of tokens; a string literal is one token that *)
(* holds the string's content.                                               *)

Tok(k) == [k |-> k]
NumTok(n) == [k |-> "num", n |-> n]
StrTok(c) == [k |-> "str", s |-> c]
KeyTok(key) == [k |-> "key", key |-> key]

RECURSIVE json_dumps(_)
RECURSIVE DumpElems(_)
RECURSIVE DumpMembers(_)
\* the elements of a list, comma separated
DumpElems(xs) ==
    IF xs = <<>> THEN <<>>
    ELSE IF Len(xs) = 1 THEN json_dumps(xs[1])
    ELSE json_dumps(xs[1]) \o <<Tok("comma")>> \o DumpElems(Tail(xs))
\* the members of an object, comma separated
DumpMembers(kv) ==
    IF kv = <<>> THEN <<>>
    ELSE LET m == <<KeyTok(kv[1][1]), Tok("colon")>> \o json_dumps(kv[1][2])
         IN  IF Len(kv) = 1 THEN m ELSE m \o <<Tok("comma")>> \o DumpMembers(Tail(kv))
\* json.dumps(v) as a token sequence
json_dumps(v) ==
    CASE v.t = "null" -> <<Tok("null")>>
      [] v.t = "num" -> <<NumTok(v.n)>>
      [] v.t = "str" -> <<StrTok(v.s)>>
      [] v.t = "list" -> <<Tok("lbrack")>> \o DumpElems(v.xs) \o <<Tok("rbrack")>>
      [] v.t = "obj" -> <<Tok("lbrace")>> \o DumpMembers(v.kv) \o <<Tok("rbrace")>>

\* the Python string whose text is the token sequence toks (a text that is one
\* non-negative number is the string of its digits)
TextOf(toks) ==
    IF Len(toks) = 1 /\ toks[1].k = "num" /\ toks[1].n >= 0
    THEN Txt(DigitsOf(toks[1].n))
    ELSE JStr([c |-> "json", toks |-> toks])

ParseFail == [ok |-> FALSE, v |-> JNull, next |-> 0]
ParseOk(v, next) == [ok |-> TRUE, v |-> v, next |-> next]

\* d[k] = v on the pairs of a dict: an existing key keeps its place
SetKey(kv, k, v) ==
    IF \E i \in 1..Len(kv) : kv[i][1] = k
    THEN [i \in 1..Len(kv) |-> IF kv[i][1] = k THEN <<k, v>> ELSE kv[i]]
    ELSE Append(kv, <<k, v>>)

RECURSIVE ParseValue(_, _)
RECURSIVE ParseElems(_, _, _)
RECURSIVE ParseMembers(_, _, _)
\* the elements after "[" (at least one), up to and including "]"
ParseElems(toks, i, acc) ==
    LET r == ParseValue(toks, i) IN
    IF ~r.ok \/ r.next > Len(toks) THEN ParseFail
    ELSE IF toks[r.next].k = "comma" THEN ParseElems(toks, r.next + 1, Append(acc, r.v))
    ELSE IF toks[r.next].k = "rbrack" THEN ParseOk(JList(Append(acc, r.v)), r.next + 1)
    ELSE ParseFail
\* the members after "{" (at least one), up to and including "}"
ParseMembers(toks, i, acc) ==
    IF i + 1 > Len(toks) \/ toks[i].k # "key" \/ toks[i + 1].k # "colon" THEN ParseFail
    ELSE LET r == ParseValue(toks, i + 2) IN
         IF ~r.ok \/ r.next > Len(toks) THEN ParseFail
         ELSE IF toks[r.next].k = "comma"
              THEN ParseMembers(toks, r.next + 1, SetKey(acc, toks[i].key, r.v))
         ELSE IF toks[r.next].k = "rbrace"
              THEN ParseOk(JObj(SetKey(acc, toks[i].key, r.v)), r.next + 1)
         ELSE ParseFail
\* one JSON value starting at token i
ParseValue(toks, i) ==
    IF i > Len(toks) THEN ParseFail
    ELSE LET tok == toks[i] IN
         CASE tok.k = "null" -> ParseOk(JNull, i + 1)
           [] tok.k = "num" -> ParseOk(JNum(tok.n), i + 1)
           [] tok.k = "str" -> ParseOk(JStr(tok.s), i + 1)
           [] tok.k = "lbrack" ->
                IF i + 1 <= Len(toks) /\ toks[i + 1].k = "rbrack"
                THEN ParseOk(JList(<<>>), i + 2)
                ELSE ParseElems(toks, i + 1, <<>>)
           [] tok.k = "lbrace" ->
                IF i + 1 <= Len(toks) /\ toks[i + 1].k = "rbrace"
                THEN ParseOk(JObj(<<>>), i + 2)
                ELSE ParseMembers(toks, i + 1, <<>>)
           [] OTHER -> ParseFail

\* json.loads(s) for a string s: [ok, v]; ok is FALSE where json.loads raises
json_loads(s) ==
    CASE s.s.c = "chars" ->
            IF isdigit(StripChars(s.s.ch))
            THEN [ok |-> TRUE, v |-> JNum(DigitsValue(StripChars(s.s.ch)))]
            ELSE [ok |-> FALSE, v |-> JNull]
      [] s.s.c = "iso" -> [ok |-> FALSE, v |-> JNull]
      [] s.s.c = "json" ->
            LET r == ParseValue(s.s.toks, 1) IN
            IF r.ok /\ r.next = Len(s.s.toks) + 1
            THEN [ok |-> TRUE, v |-> r.v]
            ELSE [ok |-> FALSE, v |-> JNull]

-----------------------------------------------------------------------------
(* Record normalizer *)

\* [x for x in xs if isinstance(x, dict)]
OnlyDicts(xs) == SelectSeq(xs, IsDict)

\* "body" in obj and isinstance(obj["body"], str)
NoBodyText(obj) == FALSE
HasBodyText(obj) == HasKey(obj, "body") /\ IsStr(Get(obj, "body"))

\* which reading of a dict the normalizer takes, in the order of its tests
ItemsBeforeBody(obj) ==
    IF IsList(Get(obj, "items")) THEN "items"
    ELSE IF IsList(Get(obj, "Items")) THEN "Items"
    ELSE IF HasBodyText(obj) THEN "body"
    ELSE "values"
DictReading(obj) ==
    IF HasBodyText(obj) THEN "body"
    ELSE IF IsList(Get(obj, "items")) THEN "items"
    ELSE IF IsList(Get(obj, "Items")) THEN "Items"
    ELSE "values"

RECURSIVE _shape_to_list(_)
_shape_to_list(obj) ==
    CASE IsNone(obj) -> <<>>
      [] IsDict(obj) ->
            LET reading == DictReading(obj) IN
            IF reading = "body"
            THEN LET r == json_loads(Get(obj, "body")) IN
                 IF r.ok THEN _shape_to_list(r.v) ELSE <<>>
            ELSE IF reading = "items" THEN OnlyDicts(Get(obj, "items").xs)
            ELSE IF reading = "Items" THEN OnlyDicts(Get(obj, "Items").xs)
            ELSE OnlyDicts(Values(obj))
      [] IsList(obj) -> OnlyDicts(obj.xs)
      [] IsStr(obj) ->
            LET r == json_loads(obj) IN
            IF r.ok THEN _shape_to_list(r.v) ELSE <<>>
      [] OTHER -> <<>>

\* the API Gateway proxy envelope {"body": json.dumps(x)}
BodyEnvelope(x) == JObj(<< <<"body", TextOf(json_dumps(x))>> >>)

-----------------------------------------------------------------------------
(* Field helpers and the timestamp parser / sanitizer *)

\* float(v): a number, or a string whose stripped text is a number; None where
\* float() raises TypeError or ValueError
_to_float(v) ==
    CASE v.t = "num" -> v
      [] v.t = "str" /\ v.s.c = "chars" /\ isdigit(StripChars(v.s.ch)) ->
            JNum(DigitsValue(StripChars(v.s.ch)))
      [] OTHER -> JNull

\* the first key of keys that data holds with a value that is not None
RECURSIVE _pick(_, _, _)
_pick(data, keys, default) ==
    IF keys = <<>> \/ ~IsDict(data) THEN default
    ELSE LET v == Get(data, Head(keys)) IN
         IF ~IsNone(v) THEN v ELSE _pick(data, Tail(keys), default)

\* 2010-01-01T00:00Z in minutes since the epoch: ts.year < 2010 is ts.n < Y2010
Y2010 == 21038400

MinutesPerDay == 1440
\* TIME_ZONE = "Asia/Kolkata": local time is UTC+05:30
TZ_OFFSET == 330

\* an ISO text without a zone, reading the wall-clock minute n
NaiveIso(n) == JStr([c |-> "naive", n |-> n])

\* datetime.fromisoformat(s.replace("Z", "+00:00")).astimezone(utc), None on
\* failure; astimezone reads a text without a zone in the local zone of the process
_parse_ts_iso(s) ==
    IF ~Truthy(s) THEN JNull
    ELSE IF s.s.c = "iso" THEN DateTime(s.s.n)
    ELSE IF s.s.c = "naive" THEN DateTime(s.s.n - TZ_OFFSET)
    ELSE JNull

\* ISO text, epoch number or numeric string to a datetime; None otherwise
_parse_ts_any(ts_raw) ==
    CASE IsNone(ts_raw) \/ ts_raw = EmptyStr -> JNull
      [] ts_raw.t = "num" -> DateTime(ts_raw.n)
      [] ts_raw.t = "dt" -> ts_raw
      [] ts_raw.t = "str" ->
            LET s == strip(ts_raw) IN
            IF s.s.c = "chars" /\ isdigit(s.s.ch)
            THEN DateTime(DigitsValue(s.s.ch))
            ELSE _parse_ts_iso(s)
      [] OTHER -> JNull

\* STRICT mode: ts when it is a datetime of year >= 2010, otherwise None
KeepsAnyInstant(ts) == ts
NowForMissing(ts) == IF IsNone(ts) THEN DateTime(now) ELSE IF ts.n < Y2010 THEN DateTime(now) ELSE ts
_sanitize_ts(ts) ==
    IF IsNone(ts) THEN JNull
    ELSE IF ts.n < Y2010 THEN JNull
    ELSE ts

\* ts.isoformat()
isoformat(ts) == IsoStr(ts.n)

-----------------------------------------------------------------------------
(* The record normalizer on its own: payloads of every accepted shape *)

D1 == Txt(<<"d", "1">>)
D2 == Txt(<<"d", "2">>)
Junk == Txt(<<"?">>)

\* the longest list of a payload
MaxListLen == 2

ShRecA == JObj(<< <<"device_id", D1>>, <<"lat", JNum(1)>> >>)
ShRecB == JObj(<< <<"id", D2>>, <<"ts", JNum(5)>> >>)
ShElems == {ShRecA, ShRecB, JNum(7)}

RECURSIVE SeqsUpTo(_, _)
\* the sequences over S of length at most n
SeqsUpTo(S, n) ==
    IF n = 0 THEN {<<>>}
    ELSE LET shorter == SeqsUpTo(S, n - 1)
         IN  shorter \cup {Append(q, x) : q \in shorter, x \in S}

\* the sequences over S of length at most n that repeat no element
DistinctSeqsUpTo(S, n) ==
    {q \in SeqsUpTo(S, n) : \A i, j \in 1..Len(q) : q[i] = q[j] => i = j}

ShLists == SeqsUpTo(ShElems, MaxListLen)

ShKeyNames == <<"k1", "k2", "k3", "k4", "k5">>
\* the object-of-objects {"k1": xs[1], "k2": xs[2], ...}
DictOf(xs) == JObj([i \in 1..Len(xs) |-> <<ShKeyNames[i], xs[i]>>])

\* the shapes that hold their records directly
ShPlain ==
    {JList(xs) : xs \in ShLists}
    \cup {JObj(<< <<"items", JList(xs)>> >>) : xs \in ShLists}
    \cup {JObj(<< <<"Items", JList(xs)>> >>) : xs \in ShLists}
    \cup {JObj(<< <<"count", JNum(1)>>, <<"items", JList(xs)>> >>) : xs \in ShLists}
    \cup {DictOf(xs) : xs \in {q \in ShLists : Len(q) <= 5}}
    \cup {JNull, JNum(7), Junk, EmptyStr, Txt(<<"4", "2">>),
          JObj(<< <<"items", Junk>>, <<"k1", ShRecA>> >>),
          JObj(<< <<"body", JNum(7)>>, <<"items", JList(<<ShRecA>>)>> >>),
          JObj(<< <<"body", Junk>>, <<"items", JList(<<ShRecA>>)>> >>),
          JObj(<< <<"items", JList(<<ShRecA>>)>>, <<"Items", JList(<<ShRecB>>)>> >>)}

\* a payload as a JSON text in a string, and inside a body envelope
ShWrapped(S) ==
    {TextOf(json_dumps(x)) : x \in S}
    \cup {BodyEnvelope(x) : x \in S}
    \cup {JObj(<< <<"statusCode", JNum(200)>>, <<"body", TextOf(json_dumps(x))>> >>) : x \in S}
    \cup {JObj(<< <<"items", JList(<<ShRecB>>)>>, <<"body", TextOf(json_dumps(x))>> >>) : x \in S}

ShPayloads == ShPlain \cup ShWrapped(ShPlain) \cup ShWrapped({BodyEnvelope(x) : x \in ShPlain})

ShRows(rows) == [t |-> "rows", rows |-> rows]

InitShape ==
    /\ sh_in \in ShPayloads
    /\ sh_out = NotRun
    /\ sh_env = NotRun

\* the caller hands the payload to the normalizer
Normalize ==
    /\ sh_out = NotRun
    /\ sh_out' = ShRows(_shape_to_list(sh_in))
    /\ UNCHANGED <<sh_in, sh_env>>

\* the same payload arrives wrapped in a proxy envelope
NormalizeEnvelope ==
    /\ sh_env = NotRun
    /\ sh_env' = ShRows(_shape_to_list(BodyEnvelope(sh_in)))
    /\ UNCHANGED <<sh_in, sh_out>>

-----------------------------------------------------------------------------
(* Aggregation read: api_current_recent *)

\* settings.DEVICES_MAX_AGE_MIN (minutes)
DEVICES_MAX_AGE_MIN == 60

\* int(v) for a query-string value: [ok, n]; ok is FALSE where int() raises
int(v) ==
    IF v.t = "str" /\ v.s.c = "chars" /\ isdigit(StripChars(v.s.ch))
    THEN [ok |-> TRUE, n |-> DigitsValue(StripChars(v.s.ch))]
    ELSE [ok |-> FALSE, n |-> 0]

\* the staleness window read from ?active_minutes=
max_age_min(override) ==
    IF Truthy(override)
    THEN IF int(override).ok THEN int(override).n ELSE DEVICES_MAX_AGE_MIN
    ELSE DEVICES_MAX_AGE_MIN

\* the unified item dict both the cache loop and merge_rows append
Item(dev_id, label, lat, lon, hr, ts) ==
    [device_id |-> dev_id, person_id |-> dev_id, person |-> label, label |-> label,
     lat |-> lat, lon |-> lon, hr |-> hr, ts |-> isoformat(ts)]

\* A) one entry of the local ingest cache: <<item>> or <<>> when it is skipped
CacheItem(it) ==
    LET ts_utc == IF it.ts.t = "dt" THEN _sanitize_ts(it.ts)
                  ELSE _sanitize_ts(_parse_ts_any(it.ts))
        lat == _to_float(it.lat)
        lon == _to_float(it.lon)
    IN  IF IsNone(ts_utc) THEN <<>>
        ELSE IF IsNone(lat) \/ IsNone(lon) THEN <<>>
        ELSE <<Item(it.device_id, Or(it.label, it.device_id), lat, lon, it.hr, ts_utc)>>

RECURSIVE CacheItems(_)
CacheItems(cache_vals) ==
    IF cache_vals = <<>> THEN <<>>
    ELSE CacheItem(Head(cache_vals)) \o CacheItems(Tail(cache_vals))

\* the keys merge_rows reads the timestamp from, in its order of preference
RawReadingFirst == <<"timestamp", "ts", "ts_iso", "last_seen", "lastSeen">>
MergeTsKeys == <<"last_seen", "lastSeen", "ts_iso", "timestamp", "ts">>

\* the two skips of merge_rows: no usable timestamp, no usable position
DropsUndatedOnly(ts, lat, lon) == IsNone(ts)
Drops(ts, lat, lon) == IsNone(ts) \/ IsNone(lat) \/ IsNone(lon)

\* one row of a remote source: <<item>> or <<>> when it is skipped
MergeRow(it) ==
    LET ts == _sanitize_ts(_parse_ts_any(_pick(it, MergeTsKeys, JNull)))
        lat0 == _to_float(_pick(it, <<"lat", "last_lat", "latitude">>, JNull))
        lon0 == _to_float(_pick(it, <<"lon", "last_lon", "longitude">>, JNull))
        useGps == IsNone(lat0) \/ IsNone(lon0)
        gps == Or(Get(it, "gps"), JObj(<<>>))
        lat == IF useGps THEN _to_float(_pick(gps, <<"lat", "latitude">>, JNull)) ELSE lat0
        lon == IF useGps THEN _to_float(_pick(gps, <<"lon", "longitude">>, JNull)) ELSE lon0
        dev_id == _pick(it, <<"device_id", "deviceId", "node_id", "id">>, JNull)
        label == _pick(it, <<"label", "person">>, dev_id)
        data_blk == Or(Get(it, "data"), JObj(<<>>))
        hr == _pick(it, <<"hr">>, _pick(data_blk, <<"hr">>, JNull))
    IN  IF Drops(ts, lat, lon) THEN <<>>
        ELSE <<Item(dev_id, label, lat, lon, hr, ts)>>

RECURSIVE merge_rows(_)
merge_rows(rows) ==
    IF rows = <<>> THEN <<>>
    ELSE MergeRow(Head(rows)) \o merge_rows(Tail(rows))

\* str(v)
PyStr(v) ==
    CASE v.t = "str" -> v
      [] v.t = "num" /\ v.n >= 0 -> Txt(DigitsOf(v.n))
      [] OTHER -> Txt(<<"<", "r", "e", "p", "r", ">">>)

\* the position of dev_id among the entries of latest_by_id, 0 when absent
IndexOf(latest, dev_id) ==
    IF \E i \in 1..Len(latest) : latest[i].device_id = dev_id
    THEN CHOOSE i \in 1..Len(latest) : latest[i].device_id = dev_id
    ELSE 0

\* ts > prev_ts on two datetimes
NewerNotOlder(ts, prev_ts) == ts.n >= prev_ts.n
AlwaysNewer(ts, prev_ts) == TRUE
Newer(ts, prev_ts) == ts.n > prev_ts.n

\* dev_id = str(it.get("device_id") or "").strip(): the key of latest_by_id
RawKey(raw) == PyStr(Or(raw, EmptyStr))
DedupKey(raw) == strip(PyStr(Or(raw, EmptyStr)))

\* E) one step of the de-duplication loop on latest_by_id;
\*    [ok, latest]: ok is FALSE where .strip() is called on a value that is no string
FoldStep(latest, it) ==
    LET dev_id == DedupKey(it.device_id)
        lab == Or(it.label, dev_id)
        it2 == [it EXCEPT !.device_id = dev_id, !.label = strip(lab)]
        ts == _parse_ts_any(it.ts)
        i == IndexOf(latest, dev_id)
    IN  IF ~Truthy(dev_id) THEN [ok |-> TRUE, latest |-> latest]
        ELSE IF ~IsStr(lab) THEN [ok |-> FALSE, latest |-> latest]
        ELSE IF IsNone(ts) THEN [ok |-> TRUE, latest |-> latest]
        ELSE IF i = 0 THEN [ok |-> TRUE, latest |-> Append(latest, it2)]
        ELSE LET prev_ts == _parse_ts_any(latest[i].ts) IN
             IF IsNone(prev_ts) \/ Newer(ts, prev_ts)
             THEN [ok |-> TRUE, latest |-> [latest EXCEPT ![i] = it2]]
             ELSE [ok |-> TRUE, latest |-> latest]

RECURSIVE Dedup(_, _)
\* the loop over items, from latest_by_id = latest
Dedup(items, latest) ==
    IF items = <<>> THEN [ok |-> TRUE, latest |-> latest]
    ELSE LET r == FoldStep(latest, Head(items)) IN
         IF r.ok THEN Dedup(Tail(items), r.latest) ELSE r

\* what one upstream GET can end in: requests raises (a timeout, a connection
\* error: both are RequestException), or a response with a status and a body;
\* json is what r.json() returns, NoContent a body of no bytes
Skipped == [kind |-> "skipped"]
Raised(what) == [kind |-> what]
NoContent == [t |-> "nocontent"]
Answer(status, json) == [kind |-> "response", status |-> status, json |-> json]

\* r.ok
AnyResponse(o) == o.kind = "response"
ResponseOk(o) == o.kind = "response" /\ o.status < 400

\* _shape_to_list(r.json() if r.content else {}) of a response that is r.ok
FetchedRows(o) ==
    IF o.json = NoContent THEN _shape_to_list(JObj(<<>>))
    ELSE _shape_to_list(o.json)

\* how a GET ended at the source: it raised, it answered an error status, or
\* it answered a success status
FetchKind(o) ==
    CASE o.kind = "skipped" -> "skipped"
      [] o.kind = "response" -> IF o.status < 400 THEN "ok" ELSE "status"
      [] OTHER -> "exception"

\* _RECENT_CACHE after the handler: section A) copies the values into a list and
\* builds a new dict for every item, so no statement of the handler writes to
\* the map or to one of its entries
EvictsSkipped(cache) == SelectSeq(cache, LAMBDA e : CacheItem(e) # <<>>)
SnapshotAfterRead(cache) == cache

\* C) if base_url and not registry_ok: the bulk fallback is asked
AsksBulkAlways(conf, registry_ok) == conf.base_url
AsksBulk(conf, registry_ok) == conf.base_url /\ ~registry_ok

\* the sources the handler consults, in the order its sections A) to D) run
Consulted(conf, registry_ok) ==
    <<"cache">>
    \o (IF conf.devices_url THEN <<"registry">> ELSE <<>>)
    \o (IF AsksBulk(conf, registry_ok) THEN <<"bulk">> ELSE <<>>)
    \o (IF conf.gsm_url THEN <<"gsm">> ELSE <<>>)

\* the whole handler, for the query parameter active_minutes and the outcomes of
\* the three upstream GETs (Skipped for a GET the handler does not issue)
CurrentRecent(active_minutes, cache, conf, o_reg, o_bulk, o_gsm) ==
    LET m == max_age_min(active_minutes)
        cutoff == now - m
        cache_vals == cache
        partA == CacheItems(cache_vals)
        rowsB == IF conf.devices_url /\ ResponseOk(o_reg) THEN FetchedRows(o_reg) ELSE <<>>
        registry_ok == rowsB # <<>>
        rowsC == IF AsksBulk(conf, registry_ok) /\ ResponseOk(o_bulk)
                 THEN FetchedRows(o_bulk) ELSE <<>>
        rowsD == IF conf.gsm_url /\ ResponseOk(o_gsm) THEN FetchedRows(o_gsm) ELSE <<>>
        items == partA \o merge_rows(rowsB) \o merge_rows(rowsC) \o merge_rows(rowsD)
        r == Dedup(items, <<>>)
    IN  [max_age_min |-> m, cutoff |-> cutoff, cache_vals |-> cache_vals,
         registry_ok |-> registry_ok,
         consulted |-> Consulted(conf, registry_ok),
         fetch |-> <<IF conf.devices_url THEN FetchKind(o_reg) ELSE "skipped",
                     IF AsksBulk(conf, registry_ok) THEN FetchKind(o_bulk) ELSE "skipped",
                     IF conf.gsm_url THEN FetchKind(o_gsm) ELSE "skipped">>,
         rows |-> <<rowsB, rowsC, rowsD>>, items |-> items,
         cache_after |-> SnapshotAfterRead(cache),
         status |-> IF r.ok THEN 200 ELSE 500,
         out |-> IF r.ok THEN r.latest ELSE <<>>]

-----------------------------------------------------------------------------
(* Local ingest write: ingest_vitals *)

\* _RECENT_CACHE[device_id] = entry: an existing key keeps its place
KeepsNewerEntry(cache, entry) ==
    IF \E i \in 1..Len(cache) : cache[i].device_id = entry.device_id
    THEN [i \in 1..Len(cache) |->
            IF cache[i].device_id = entry.device_id /\ entry.ts.n > cache[i].ts.n
            THEN entry ELSE cache[i]]
    ELSE Append(cache, entry)
CacheSet(cache, entry) ==
    IF \E i \in 1..Len(cache) : cache[i].device_id = entry.device_id
    THEN [i \in 1..Len(cache) |->
            IF cache[i].device_id = entry.device_id THEN entry ELSE cache[i]]
    ELSE Append(cache, entry)

\* ts = _parse_ts_any(payload.get("timestamp")) or dj_tz.now().astimezone(utc)
NeverStamps(parsed) == parsed
StampOf(parsed) == Or(parsed, DateTime(now))

\* `if request.headers.get("x-ingest-secret", "") != settings.INGEST_SECRET`
NoSecretCheck(secret_ok) == FALSE
Unauthorized(secret_ok) == ~secret_ok

\* the whole handler on one POST: [status, cache], the cache after the request
\* (status 500: an AttributeError escapes the view)
ingest_vitals(secret_ok, body, cache) ==
    LET parsed == json_loads(IF Truthy(body) THEN body ELSE TextOf(json_dumps(JObj(<<>>))))
        payload == parsed.v
        raw_id == Or(Or(Or(Get(payload, "device_id"), Get(payload, "node_id")),
                        Get(payload, "id")), EmptyStr)
        device_id == strip(raw_id)
        ts == StampOf(_parse_ts_any(Get(payload, "timestamp")))
        entry == [device_id |-> device_id,
                  label |-> Or(Or(Get(payload, "label"), Get(payload, "person")), device_id),
                  lat |-> _to_float(Get(payload, "lat")),
                  lon |-> _to_float(Get(payload, "lon")),
                  hr |-> _to_float(Get(payload, "hr")),
                  ts |-> ts]
    IN  IF Unauthorized(secret_ok) THEN [status |-> 401, cache |-> cache]
        ELSE IF ~parsed.ok THEN [status |-> 400, cache |-> cache]
        ELSE IF ~IsDict(payload) \/ ~IsStr(raw_id) THEN [status |-> 500, cache |-> cache]
        ELSE IF ~Truthy(device_id) THEN [status |-> 400, cache |-> cache]
        ELSE [status |-> 200, cache |-> CacheSet(cache, entry)]

-----------------------------------------------------------------------------
(* The aggregation system: devices push to /ingest/v1, the dashboard polls    *)
(* /api/current/recent, the remote registries answer or fail                 *)

\* the instant the model's clock starts at (after 2010)
Clock0 == Y2010 + 7000000
\* how many minutes the clock may advance
MaxTick == 1
\* the samples one aggregation request meets: the entries of the local cache
\* and the rows the three remote sources return, in total
MaxSamples == 2

T_fresh == Clock0
T_mid == Clock0 - 6
T_stale == Clock0 - 61

Ann == Txt(<<"A", "n", "n">>)

RecFresh == JObj(<< <<"device_id", D1>>, <<"last_seen", IsoStr(T_fresh)>>,
                    <<"lat", JNum(1)>>, <<"lon", JNum(1)>> >>)
RecMid == JObj(<< <<"node_id", Txt(<<" ", "d", "1", " ">>)>>, <<"ts", JNum(T_mid)>>,
                  <<"last_lat", Txt(<<"2">>)>>, <<"last_lon", JNum(2)>>, <<"label", Ann>> >>)
RecTie == JObj(<< <<"id", D1>>, <<"timestamp", Txt(DigitsOf(T_fresh))>>,
                  <<"gps", JObj(<< <<"lat", JNum(3)>>, <<"lon", JNum(3)>> >>)>>,
                  <<"data", JObj(<< <<"hr", JNum(70)>> >>)>> >>)
RecStale == JObj(<< <<"deviceId", D2>>, <<"last_seen", IsoStr(T_stale)>>,
                    <<"timestamp", IsoStr(T_fresh)>>,
                    <<"latitude", JNum(1)>>, <<"longitude", JNum(1)>> >>)
RecNoTs == JObj(<< <<"device_id", D2>>, <<"lat", JNum(1)>>, <<"lon", JNum(1)>> >>)
RecBadTs == JObj(<< <<"device_id", D2>>, <<"ts", JNum(0)>>, <<"lat", JNum(1)>>,
                    <<"lon", JNum(1)>> >>)
RecNoLon == JObj(<< <<"device_id", D2>>, <<"last_seen", IsoStr(T_fresh)>>,
                    <<"lat", JNum(1)>>, <<"lon", Junk>> >>)
RecNoId == JObj(<< <<"last_seen", IsoStr(T_fresh)>>, <<"lat", JNum(1)>>,
                   <<"lon", JNum(1)>>, <<"label", Ann>> >>)
RecNumId == JObj(<< <<"id", JNum(12)>>, <<"last_seen", IsoStr(T_fresh)>>,
                    <<"lat", JNum(1)>>, <<"lon", JNum(1)>> >>)

AggRecords == {RecFresh, RecMid, RecTie, RecStale, RecNoTs, RecBadTs, RecNoLon,
               RecNoId, RecNumId}

\* the JSON body of an error answer: {"error": {"code": 503}}
ErrorBody == JObj(<< <<"error", JObj(<< <<"code", JNum(503)>> >>)>> >>)

\* the outcomes of one upstream GET at a source that holds the rows xs: the GET
\* times out, the source answers an error status or an empty body, or it answers its
\* rows (the two registries wrap them in {"items": [...]}, the bulk endpoint
\* wraps its list in an API Gateway body)
Outcomes(xs, registry) ==
    IF xs = <<>>
    THEN {Raised("timeout"), Answer(503, ErrorBody), Answer(200, NoContent)}
    ELSE {Answer(200, IF registry THEN JObj(<< <<"items", JList(xs)>> >>)
                      ELSE BodyEnvelope(JList(xs)))}

\* the values of ?active_minutes= (None: the parameter is absent)
ActiveMinutes == {JNull, Txt(<<"5">>)}

\* the POST bodies devices send
IngestBodies ==
    {TextOf(json_dumps(x)) : x \in {
        JObj(<< <<"device_id", D1>>, <<"lat", JNum(1)>>, <<"lon", JNum(1)>> >>),
        JObj(<< <<"node_id", Txt(<<"d", "1", " ">>)>>, <<"timestamp", IsoStr(T_mid)>>,
                <<"lat", Txt(<<"4">>)>>, <<"lon", JNum(4)>>, <<"person", Ann>> >>),
        JObj(<< <<"id", D2>>, <<"timestamp", JNum(0)>>, <<"lat", JNum(1)>>,
                <<"lon", JNum(1)>> >>),
        JObj(<< <<"device_id", D2>>, <<"timestamp", IsoStr(T_fresh)>>,
                <<"hr", JNum(70)>> >>),
        JObj(<< <<"device_id", JNum(12)>> >>),
        JObj(<< <<"label", Ann>> >>) }}
    \cup {Junk, EmptyStr}

\* core/settings.py always derives a VITALS_DEVICES_URL; the two others may be empty
Settings == [devices_url : {TRUE}, base_url : BOOLEAN, gsm_url : BOOLEAN]

NoCall == [handler |-> "none"]
NoResponse == [status |-> 0, items |-> <<>>]

InitAgg ==
    /\ now = Clock0
    /\ RECENT_CACHE = <<>>
    /\ settings \in Settings
    /\ call = NoCall
    /\ response = NoResponse

\* time passes
Tick ==
    /\ call = NoCall
    /\ now < Clock0 + MaxTick
    /\ now' = now + 1
    /\ UNCHANGED <<RECENT_CACHE, settings, call, response>>

\* POST /ingest/v1/
IngestVitals ==
    /\ call = NoCall
    /\ \E secret_ok \in BOOLEAN, body \in IngestBodies :
       \E r \in {ingest_vitals(secret_ok, body, RECENT_CACHE)} :
        /\ RECENT_CACHE' = r.cache
        /\ call' = [handler |-> "ingest_vitals", secret_ok |-> secret_ok, body |-> body,
                    cache_before |-> RECENT_CACHE]
        /\ response' = [status |-> r.status, items |-> <<>>]
        /\ UNCHANGED <<now, settings>>

\* GET /api/current/recent/: the remote sources hold the rows xs between them
\* (the registry the first i, the bulk endpoint the next, the GSM registry the
\* rest; a source that is not configured, or that the handler does not reach,
\* holds none), and each GET the handler issues ends in one of its outcomes
ApiCurrentRecent ==
    /\ call = NoCall
    /\ Len(RECENT_CACHE) <= MaxSamples
    /\ \E active_minutes \in ActiveMinutes,
          xs \in DistinctSeqsUpTo(AggRecords, MaxSamples - Len(RECENT_CACHE)) :
       \E i \in 0..Len(xs) :
       \E j \in {k \in i..Len(xs) : /\ (settings.base_url /\ i = 0) \/ k = i
                                    /\ settings.gsm_url \/ k = Len(xs)} :
       \E o_reg \in IF settings.devices_url THEN Outcomes(SubSeq(xs, 1, i), TRUE)
                    ELSE {Skipped} :
       \E o_bulk \in IF settings.base_url /\ i = 0 THEN Outcomes(SubSeq(xs, i + 1, j), FALSE)
                     ELSE {Skipped} :
       \E o_gsm \in IF settings.gsm_url THEN Outcomes(SubSeq(xs, j + 1, Len(xs)), TRUE)
                    ELSE {Skipped} :
       \E r \in {CurrentRecent(active_minutes, RECENT_CACHE, settings, o_reg, o_bulk, o_gsm)} :
        /\ call' = [handler |-> "api_current_recent", active_minutes |-> active_minutes,
                    max_age_min |-> r.max_age_min, cutoff |-> r.cutoff,
                    cache_vals |-> r.cache_vals, consulted |-> r.consulted,
                    fetch |-> r.fetch, rows |-> r.rows, items |-> r.items]
        /\ response' = [status |-> r.status, items |-> r.out]
        /\ RECENT_CACHE' = r.cache_after
        /\ UNCHANGED <<now, settings>>

\* the response is delivered; the process is ready for the next request
Deliver ==
    /\ call # NoCall
    /\ call' = NoCall
    /\ response' = NoResponse
    /\ UNCHANGED <<now, RECENT_CACHE, settings>>

-----------------------------------------------------------------------------
(* Concurrent requests: ingest_vitals and api_current_recent as threads of    *)
(* one process. A step is one statement; the interpreter lock makes a name   *)
(* lookup, a name binding, list(d.values()), dict.get and d[k] = v each one  *)
(* indivisible step. Remote sources are down for the read of this system.    *)

\* how many ingest requests run beside the read
MaxWriters == 2
Writers == 1..MaxWriters

\* the bodies the concurrent devices post (two of them for device d1)
RaceBodies ==
    {TextOf(json_dumps(x)) : x \in {
        JObj(<< <<"device_id", D1>>, <<"lat", JNum(1)>>, <<"lon", JNum(1)>> >>),
        JObj(<< <<"node_id", Txt(<<"d", "1", " ">>)>>, <<"timestamp", IsoStr(T_mid)>>,
                <<"lat", Txt(<<"4">>)>>, <<"lon", JNum(4)>>, <<"person", Ann>> >>),
        JObj(<< <<"device_id", D2>>, <<"timestamp", IsoStr(T_fresh)>>,
                <<"lat", JNum(2)>>, <<"lon", JNum(2)>>, <<"hr", JNum(70)>> >>) }}
    \cup {Junk}

\* the module global _RECENT_CACHE: unbound until the first ingest binds it;
\* slots are its keys in insertion order, each with a reference into the heap
Unbound == [bound |-> FALSE, slots |-> <<>>]
EmptyDict == [bound |-> TRUE, slots |-> <<>>]

SlotOf(slots, dev_id) ==
    IF \E i \in 1..Len(slots) : slots[i].device_id = dev_id
    THEN CHOOSE i \in 1..Len(slots) : slots[i].device_id = dev_id
    ELSE 0

\* _RECENT_CACHE[device_id] = entry on the dict and the heap of entry dicts:
\* the key is bound to the new dict, no stored dict is written to
PatchesStoredEntry(g, hp, dev_id, ref) ==
    LET i == SlotOf(g.slots, dev_id) IN
    IF i = 0
    THEN [glob |-> [g EXCEPT !.slots = Append(@, [device_id |-> dev_id, ref |-> ref])],
          heap |-> hp]
    ELSE [glob |-> g,
          heap |-> [hp EXCEPT ![g.slots[i].ref] =
                       [@ EXCEPT !.lat = hp[ref].lat, !.lon = hp[ref].lon]]]
StoreEntry(g, hp, dev_id, ref) ==
    LET i == SlotOf(g.slots, dev_id) IN
    [glob |-> IF i = 0
              THEN [g EXCEPT !.slots = Append(@, [device_id |-> dev_id, ref |-> ref])]
              ELSE [g EXCEPT !.slots[i].ref = ref],
     heap |-> hp]

WriterIdle == [pc |-> "idle", body |-> EmptyStr, entry |-> JNull, ref |-> 0, status |-> 0]
ReaderIdle == [pc |-> "idle", vals |-> <<>>, ts |-> JNull, seen |-> <<>>,
               status |-> 0, items |-> <<>>]

\* the read of this system finds the registry down and nothing else configured
RegistryOnly == [devices_url |-> TRUE, base_url |-> FALSE, gsm_url |-> FALSE]

InitRace ==
    /\ glob = Unbound
    /\ heap = <<>>
    /\ wr = [w \in Writers |-> WriterIdle]
    /\ rd = ReaderIdle

\* ingest_vitals, lines 710-728: the checks of the request, device_id and ts
WStart(w) ==
    /\ wr[w].pc = "idle"
    /\ \E body \in RaceBodies :
       \E r \in {ingest_vitals(TRUE, body, <<>>)} :
          wr' = [wr EXCEPT ![w] =
                    IF r.status = 200
                    THEN [@ EXCEPT !.pc = "lookup", !.body = body, !.entry = r.cache[1]]
                    ELSE [@ EXCEPT !.pc = "done", !.body = body, !.status = r.status]]
    /\ UNCHANGED <<glob, heap, rd>>

\* lines 732-733: try: _RECENT_CACHE
WLookup(w) ==
    /\ wr[w].pc = "lookup"
    /\ wr' = [wr EXCEPT ![w].pc = IF glob.bound THEN "build" ELSE "bind"]
    /\ UNCHANGED <<glob, heap, rd>>

\* lines 734-735: except NameError: _RECENT_CACHE = {}
WBind(w) ==
    /\ wr[w].pc = "bind"
    /\ glob' = EmptyDict
    /\ wr' = [wr EXCEPT ![w].pc = "build"]
    /\ UNCHANGED <<heap, rd>>

\* lines 749-762: entry = {...}, a new dict no other thread holds
WBuild(w) ==
    /\ wr[w].pc = "build"
    /\ heap' = Append(heap, wr[w].entry)
    /\ wr' = [wr EXCEPT ![w].pc = "store", ![w].ref = Len(heap) + 1]
    /\ UNCHANGED <<glob, rd>>

\* lines 764-765: _RECENT_CACHE[device_id] = entry; return 200
WStore(w) ==
    /\ wr[w].pc = "store"
    /\ \E r \in {StoreEntry(glob, heap, wr[w].entry.device_id, wr[w].ref)} :
          /\ glob' = r.glob
          /\ heap' = r.heap
    /\ wr' = [wr EXCEPT ![w].pc = "done", ![w].status = 200]
    /\ UNCHANGED rd

\* api_current_recent, lines 515-520: cache_vals = list(_RECENT_CACHE.values()),
\* an empty list where the name is unbound
RList ==
    /\ rd.pc = "idle"
    /\ \E vals \in {[k \in 1..Len(glob.slots) |-> glob.slots[k].ref]} :
          rd' = [rd EXCEPT !.vals = vals, !.pc = IF vals = <<>> THEN "fold" ELSE "ts"]
    /\ UNCHANGED <<glob, heap, wr>>

\* line 523: ts = it.get("ts") of the next entry
RTs ==
    /\ rd.pc = "ts"
    /\ rd' = [rd EXCEPT !.ts = heap[rd.vals[Len(rd.seen) + 1]].ts, !.pc = "rest"]
    /\ UNCHANGED <<glob, heap, wr>>

\* lines 531-553: the other fields of the entry are read
RRest ==
    /\ rd.pc = "rest"
    /\ \E e \in {heap[rd.vals[Len(rd.seen) + 1]]} :
          rd' = [rd EXCEPT !.seen = Append(@, [e EXCEPT !.ts = rd.ts]),
                           !.pc = IF Len(rd.seen) + 1 = Len(rd.vals) THEN "fold" ELSE "ts"]
    /\ UNCHANGED <<glob, heap, wr>>

\* lines 556-687: the remote sections and the de-duplication, on what was read
RFold ==
    /\ rd.pc = "fold"
    /\ \E r \in {CurrentRecent(JNull, rd.seen, RegistryOnly, Raised("timeout"),
                               Skipped, Skipped)} :
          rd' = [rd EXCEPT !.pc = "done", !.status = r.status, !.items = r.out]
    /\ UNCHANGED <<glob, heap, wr>>

-----------------------------------------------------------------------------
(* Tracking helpers: dates, distance, rounding *)

\* ts.date() of a UTC datetime: the day number
date(ts) == ts.n \div MinutesPerDay
\* dj_tz.localtime(ts): the wall clock of the configured zone
localtime(ts) == DateTime(ts.n + TZ_OFFSET)
\* strftime("%H:%M:%S") and strftime("%H:%M"): the minute of the day
strftime(ts) == ts.n % MinutesPerDay

\* a date text of the query string, written in the format fmt
DateText(fmt, day) == JStr([c |-> "date", fmt |-> fmt, day |-> day])
\* datetime.strptime(s, fmt).date(): [ok, day]; ok is FALSE where it raises ValueError
strptime(s, fmt) ==
    IF s.s.c = "date" /\ s.s.fmt = fmt THEN [ok |-> TRUE, day |-> s.s.day]
    ELSE [ok |-> FALSE, day |-> 0]

\* metres between two neighbouring grid latitudes
StepM == 4
Abs(n) == IF n < 0 THEN 0 - n ELSE n

\* the great-circle distance, in metres: with dlambda = 0 the formula reduces to
\* a = sin(dphi/2)^2, c = |dphi|, R * c = R * |dphi|
_haversine_km(lat1, lon1, lat2, lon2) == StepM * Abs(lat2 - lat1)

\* round(km, 2), in units of 10 m, for a distance of m metres
round2(m) == (m + 5) \div 10

-----------------------------------------------------------------------------
(* Tracking read: api_tracking *)

MAX_GAP_MIN == 20

\* the filter and normalisation of one upstream row: <<point>> or <<>>
TrackPoint(it, device_id, target_date) ==
    LET dev_id == strip(PyStr(Or(Or(Or(Get(it, "device_id"), Get(it, "node_id")),
                                    Get(it, "id")), EmptyStr)))
        ts == _sanitize_ts(_parse_ts_any(Or(Get(it, "timestamp"), Get(it, "ts"))))
        lat0 == _to_float(_pick(it, <<"lat", "last_lat", "latitude", "Latitude">>, JNull))
        lon0 == _to_float(_pick(it, <<"lon", "last_lon", "longitude", "Longitude">>, JNull))
        useGps == IsNone(lat0) \/ IsNone(lon0)
        gps == Or(Get(it, "gps"), JObj(<<>>))
        lat == IF useGps THEN _to_float(_pick(gps, <<"lat", "latitude", "Latitude">>, JNull))
               ELSE lat0
        lon == IF useGps THEN _to_float(_pick(gps, <<"lon", "longitude", "Longitude">>, JNull))
               ELSE lon0
    IN  IF dev_id # device_id THEN <<>>
        ELSE IF IsNone(ts) THEN <<>>
        ELSE IF date(ts) # target_date THEN <<>>
        ELSE IF IsNone(lat) \/ IsNone(lon) THEN <<>>
        ELSE << [dt |-> ts, lat |-> lat.n, lon |-> lon.n] >>

RECURSIVE TrackPoints(_, _, _)
TrackPoints(rows, device_id, target_date) ==
    IF rows = <<>> THEN <<>>
    ELSE TrackPoint(Head(rows), device_id, target_date)
         \o TrackPoints(Tail(rows), device_id, target_date)

\* one insertion of the stable sort: p goes behind every point that is not later
InsertBehindAll(sorted, p) == Append(sorted, p)
InsertByDt(sorted, p) ==
    LET k == Cardinality({i \in 1..Len(sorted) : sorted[i].dt.n <= p.dt.n})
    IN  SubSeq(sorted, 1, k) \o <<p>> \o SubSeq(sorted, k + 1, Len(sorted))

\* points.sort(key=lambda p: p["dt"])
Unsorted(points) == points
RECURSIVE SortByDt(_)
SortByDt(points) ==
    IF points = <<>> THEN <<>>
    ELSE InsertByDt(SortByDt(SubSeq(points, 1, Len(points) - 1)), points[Len(points)])

\* gap_min > MAX_GAP_MIN for the point p and the time of the point before it
GapAtLeastMax(p, last_time) == (p.dt.n - last_time.n) >= MAX_GAP_MIN
GapOverMax(p, last_time) == (p.dt.n - last_time.n) > MAX_GAP_MIN

RECURSIVE GroupTrips(_, _, _, _)
\* the grouping loop, from the locals trips_raw, current and last_time
GroupTrips(points, trips_raw, current, last_time) ==
    IF points = <<>>
    THEN IF current # <<>> THEN Append(trips_raw, current) ELSE trips_raw
    ELSE LET p == Head(points) IN
         IF current = <<>> THEN GroupTrips(Tail(points), trips_raw, <<p>>, p.dt)
         ELSE IF GapOverMax(p, last_time)
              THEN GroupTrips(Tail(points), Append(trips_raw, current), <<p>>, p.dt)
              ELSE GroupTrips(Tail(points), trips_raw, Append(current, p), p.dt)

\* dist of one run: the haversine distances between consecutive points, summed
RunDist(seg) ==
    SumSeq([i \in 1..(Len(seg) - 1) |->
              _haversine_km(seg[i].lat, seg[i].lon, seg[i + 1].lat, seg[i + 1].lon)])

\* len(seg) < 2: the run is skipped
KeepsEveryRun(seg) == FALSE
TooShort(seg) == Len(seg) < 2

\* one entry of trips_payload
TripPayload(seg, trip_id) ==
    [id |-> trip_id,
     start_time |-> strftime(seg[1].dt),
     end_time |-> strftime(seg[Len(seg)].dt),
     distance_km |-> round2(RunDist(seg)),
     points |-> [i \in 1..Len(seg) |->
                   [lat |-> seg[i].lat, lng |-> seg[i].lon, ts |-> strftime(seg[i].dt)]]]

RECURSIVE BuildPayload(_, _, _)
\* the payload loop, from the locals trips_payload and total_km (trip_id is
\* len(trips_payload) + 1): [trips, total_km], total_km still unrounded
BuildPayload(trips_raw, trips_payload, total_km) ==
    IF trips_raw = <<>> THEN [trips |-> trips_payload, total_km |-> total_km]
    ELSE LET seg == Head(trips_raw) IN
         IF TooShort(seg) THEN BuildPayload(Tail(trips_raw), trips_payload, total_km)
         ELSE BuildPayload(Tail(trips_raw),
                           Append(trips_payload, TripPayload(seg, Len(trips_payload) + 1)),
                           total_km + RunDist(seg))

\* the total the response reports, from the unrounded sum of the loop
SumOfRounded(built) == SumSeq([i \in 1..Len(built.trips) |-> built.trips[i].distance_km])
ReportedTotal(built) == round2(built.total_km)

\* rows = payload.get("items", payload); a dict becomes the list of its values;
\* [ok, rows]: ok is FALSE where the payload has no .get (a JSON list)
TrackRows(payload) ==
    IF ~IsDict(payload) THEN [ok |-> FALSE, rows |-> <<>>]
    ELSE LET rows == IF HasKey(payload, "items") THEN Get(payload, "items") ELSE payload
         IN  CASE IsDict(rows) -> [ok |-> TRUE, rows |-> Values(rows)]
               [] IsList(rows) -> [ok |-> TRUE, rows |-> rows.xs]
               [] OTHER -> [ok |-> TRUE, rows |-> <<>>]

NoTrack == [handler |-> "none"]

\* target_date is None: strptime raised ValueError for both formats
AnyDateParsed(dmy_ok, ymd_ok) == FALSE
NoDateParsed(dmy_ok, ymd_ok) == ~dmy_ok /\ ~ymd_ok

\* the whole handler, for the query parameters and the outcome of the upstream GET
\* (Skipped where the handler issues none)
Tracking(device_id_raw, date_raw0, conf, o) ==
    LET device_id == strip(Or(device_id_raw, EmptyStr))
        date_raw == strip(Or(date_raw0, EmptyStr))
        dmy == strptime(date_raw, "%d-%m-%Y")
        ymd == strptime(date_raw, "%Y-%m-%d")
        target_date == IF dmy.ok THEN dmy.day ELSE ymd.day
        parses == conf.base_url /\ ResponseOk(o) /\ o.json # NoContent
        fetched == IF parses THEN TrackRows(o.json) ELSE [ok |-> TRUE, rows |-> <<>>]
        points == SortByDt(TrackPoints(fetched.rows, device_id, target_date))
        trips_raw == GroupTrips(points, <<>>, <<>>, JNull)
        built == BuildPayload(trips_raw, <<>>, 0)
        base == [handler |-> "api_tracking", device_id |-> device_id, date |-> date_raw,
                 target_date |-> JNull, fetch |-> "skipped", payload |-> JNull,
                 rows |-> <<>>, points |-> <<>>,
                 trips_raw |-> <<>>, status |-> 400, trips |-> <<>>, total_km |-> 0]
        asked == [base EXCEPT !.target_date = JNum(target_date),
                              !.fetch = IF conf.base_url THEN FetchKind(o) ELSE "skipped",
                              !.payload = IF parses THEN o.json ELSE JNull]
    IN  IF ~Truthy(device_id) \/ ~Truthy(date_raw) THEN base
        ELSE IF NoDateParsed(dmy.ok, ymd.ok) THEN base
        ELSE IF ~fetched.ok THEN [asked EXCEPT !.status = 500]
        ELSE [asked EXCEPT !.rows = fetched.rows, !.points = points,
                           !.trips_raw = trips_raw, !.status = 200,
                           !.trips = built.trips, !.total_km = ReportedTotal(built)]

-----------------------------------------------------------------------------
(* Tracking export: api_tracking_download *)

\* the Device table
Devices == {D1, D2}

\* (ts - prev_ts) > gap
GapExceeded(ts, prev_ts, gap) == (ts.n - prev_ts.n) > gap

\* the readings of a list that carry both coordinates
WithCoords(rs) == SelectSeq(rs, LAMBDA r : ~IsNone(r.lat) /\ ~IsNone(r.lon))

\* one segment from the readings of a run: <<segment>>, or <<>> for the empty dict
_build_segment_from_readings(rs, seg_index) ==
    LET located == WithCoords(rs)
        coords == [i \in 1..Len(located) |->
                     [lat |-> located[i].lat.n, lng |-> located[i].lon.n,
                      time |-> strftime(localtime(located[i].ts))]]
        total_km == SumSeq([i \in 1..(Len(located) - 1) |->
                      _haversine_km(located[i].lat.n, located[i].lon.n,
                                    located[i + 1].lat.n, located[i + 1].lon.n)])
    IN  IF coords = <<>> THEN <<>>
        ELSE << [id |-> seg_index,
                 start_time |-> strftime(localtime(rs[1].ts)),
                 end_time |-> strftime(localtime(rs[Len(rs)].ts)),
                 distance_km |-> round2(total_km),
                 points |-> coords] >>

\* len(current) >= 2: the run is closed into a segment
ClosesRun(current) == Len(current) >= 2

\* the segments a closed run adds to segments
CloseRun(segments, current) ==
    IF ClosesRun(current)
    THEN segments \o _build_segment_from_readings(current, Len(segments) + 1)
    ELSE segments

RECURSIVE SegmentLoop(_, _, _, _, _)
\* the loop of _build_trip_segments_from_readings, from its locals
SegmentLoop(rs, segments, current, prev_ts, gap) ==
    IF rs = <<>> THEN CloseRun(segments, current)
    ELSE LET r == Head(rs) IN
         IF ~IsNone(prev_ts) /\ GapExceeded(r.ts, prev_ts, gap)
         THEN SegmentLoop(Tail(rs), CloseRun(segments, current), <<r>>, r.ts, gap)
         ELSE SegmentLoop(Tail(rs), segments, Append(current, r), r.ts, gap)

DEFAULT_MAX_GAP_MINUTES == 30

_build_trip_segments_from_readings(rs, max_gap_minutes) ==
    IF rs = <<>> THEN <<>>
    ELSE SegmentLoop(rs, <<>>, <<>>, JNull, max_gap_minutes)

\* dj_tz.make_aware(datetime.combine(selected_date, datetime.min.time()))
day_start(selected_date) == selected_date * MinutesPerDay - TZ_OFFSET

\* the rows Reading.objects.filter(...) selects
Selects(r, device_id, selected_date) ==
    /\ r.device = device_id
    /\ r.ts.n >= day_start(selected_date)
    /\ r.ts.n < day_start(selected_date) + MinutesPerDay
    /\ ~IsNone(r.lat)
    /\ ~IsNone(r.lon)

RECURSIVE order_by_ts(_)
\* .order_by("ts")
order_by_ts(S) ==
    IF S = {} THEN <<>>
    ELSE LET r == CHOOSE r \in S : \A q \in S : r.ts.n <= q.ts.n
         IN  <<r>> \o order_by_ts(S \ {r})

\* the data rows of the CSV, one per point of each segment
FirstPointOnly(trips, device_id, date_str) ==
    [s \in 1..Len(trips) |->
        <<trips[s].id, device_id, date_str, trips[s].points[1].time,
          trips[s].points[1].lat, trips[s].points[1].lng,
          trips[s].start_time, trips[s].end_time, trips[s].distance_km>>]
CsvRows(trips, device_id, date_str) ==
    Concat([s \in 1..Len(trips) |->
              [i \in 1..Len(trips[s].points) |->
                 <<trips[s].id, device_id, date_str, trips[s].points[i].time,
                   trips[s].points[i].lat, trips[s].points[i].lng,
                   trips[s].start_time, trips[s].end_time, trips[s].distance_km>>]])

\* selected_date = datetime.strptime(date_str, "%Y-%m-%d").date()
EitherFormat(date_str) ==
    IF strptime(date_str, "%d-%m-%Y").ok THEN strptime(date_str, "%d-%m-%Y")
    ELSE strptime(date_str, "%Y-%m-%d")
SelectedDate(date_str) == strptime(date_str, "%Y-%m-%d")

\* the whole handler, for the query parameters and the Reading table; queries
\* lists the tables it has queried
TrackingDownload(device_id_raw, date_raw, table) ==
    LET device_id == strip(Or(device_id_raw, EmptyStr))
        date_str == strip(Or(date_raw, EmptyStr))
        selected == SelectedDate(date_str)
        rs == order_by_ts({r \in table : Selects(r, device_id, selected.day)})
        trips == _build_trip_segments_from_readings(rs, DEFAULT_MAX_GAP_MINUTES)
        base == [handler |-> "api_tracking_download", device_id |-> device_id,
                 date |-> date_str, selected_date |-> JNull, queries |-> <<>>,
                 readings |-> <<>>, status |-> 400, trips |-> <<>>, csv |-> <<>>]
    IN  IF ~Truthy(device_id) \/ ~Truthy(date_str) THEN base
        ELSE IF ~selected.ok THEN base
        ELSE IF device_id \notin Devices
             THEN [base EXCEPT !.selected_date = JNum(selected.day), !.queries = <<"Device">>]
        ELSE [base EXCEPT !.selected_date = JNum(selected.day),
                          !.queries = <<"Device", "Reading">>,
                          !.readings = rs, !.status = 200, !.trips = trips,
                          !.csv = CsvRows(trips, device_id, date_str)]

-----------------------------------------------------------------------------
(* The tracking system: readings are stored, the tracking page polls        *)
(* /api/tracking, the operator downloads /api/tracking/download             *)

\* the readings and upstream rows one tracking request meets, in total
MaxRows == 4

\* the day the tracking page asks for, and 10:00 of that day in UTC and in
\* local time
TrackDay == Clock0 \div MinutesPerDay
T0 == TrackDay * MinutesPerDay + 600
L0 == T0 - TZ_OFFSET

D3 == Txt(<<"d", "3">>)

\* the rows VITALS_API_URL holds: device d1 at 10:00, 10:20, 10:41 and 10:50,
\* one step north between 10:00 and 10:20 and between 10:41 and 10:50; a row
\* of d2, one without a latitude, one of the next day, one without a timestamp
RowA0 == JObj(<< <<"device_id", D1>>, <<"timestamp", IsoStr(T0)>>,
                 <<"lat", JNum(0)>>, <<"lon", JNum(77)>> >>)
RowA20 == JObj(<< <<"node_id", Txt(<<"d", "1", " ">>)>>, <<"ts", JNum(T0 + 20)>>,
                  <<"last_lat", Txt(<<"1">>)>>, <<"last_lon", JNum(77)>> >>)
RowA41 == JObj(<< <<"id", D1>>, <<"timestamp", IsoStr(T0 + 41)>>,
                  <<"gps", JObj(<< <<"lat", JNum(1)>>, <<"lon", JNum(77)>> >>)>> >>)
RowA50 == JObj(<< <<"device_id", D1>>, <<"timestamp", JNum(0)>>, <<"ts", IsoStr(T0 + 50)>>,
                  <<"latitude", JNum(2)>>, <<"longitude", JNum(77)>> >>)
RowB20 == JObj(<< <<"device_id", D2>>, <<"timestamp", IsoStr(T0 + 20)>>,
                  <<"lat", JNum(5)>>, <<"lon", JNum(77)>> >>)
RowNoLat == JObj(<< <<"device_id", D1>>, <<"timestamp", IsoStr(T0 + 10)>>,
                    <<"lon", JNum(77)>> >>)
RowNextDay == JObj(<< <<"device_id", D1>>, <<"timestamp", IsoStr(T0 + MinutesPerDay)>>,
                      <<"lat", JNum(0)>>, <<"lon", JNum(77)>> >>)

RowNoTs == JObj(<< <<"device_id", D1>>, <<"lat", JNum(3)>>, <<"lon", JNum(77)>> >>)

TrackRecords == {RowA0, RowA20, RowA41, RowA50, RowB20, RowNoLat, RowNextDay, RowNoTs}

\* a row of the Reading table
ReadingRow(device, ts, lat, lon) ==
    [device |-> device, ts |-> DateTime(ts), lat |-> lat, lon |-> lon]

\* the readings that get stored: device d1 at 10:00, 10:30, 11:01 and 11:10 local
\* time, one without a position at 10:15, one of the next day, and one of d2
TrackReadings ==
    {ReadingRow(D1, L0, JNum(0), JNum(77)),
     ReadingRow(D1, L0 + 15, JNull, JNull),
     ReadingRow(D1, L0 + 30, JNum(1), JNum(77)),
     ReadingRow(D1, L0 + 61, JNum(1), JNum(77)),
     ReadingRow(D1, L0 + 70, JNum(2), JNum(77)),
     ReadingRow(D1, L0 + MinutesPerDay, JNum(0), JNum(77)),
     ReadingRow(D2, L0 + 30, JNum(5), JNum(77))}

\* the query strings of the two tracking endpoints
TrackDeviceIds == {JNull, Txt(<<" ", "d", "1">>), D2, D3}
TrackDates == {JNull, DateText("%d-%m-%Y", TrackDay), DateText("%Y-%m-%d", TrackDay), Junk}

\* the outcomes of the GET at VITALS_API_URL when it holds the rows xs
TrackOutcomes(xs) ==
    IF xs = <<>>
    THEN {Raised("timeout"), Answer(503, ErrorBody), Answer(200, NoContent),
          Answer(200, JObj(<< <<"items", JList(<<>>)>> >>)), Answer(200, JList(<<>>))}
    ELSE {Answer(200, JObj(<< <<"items", JList(xs)>> >>)), Answer(200, JList(xs))}

\* CurrentVital.objects.get(device=dev): the rows of the device
RowsOf(cvs, dev) == {cv \in cvs : cv.device = dev}

\* `if instance.ts <= cv.ts: return`
KeepsUnlessOlder(instance, cv) == instance.ts.n < cv.ts.n
NeverKeeps(instance, cv) == FALSE
KeepsStored(instance, cv) == instance.ts.n <= cv.ts.n

\* the post_save receiver of Reading: the CurrentVital table after the save of
\* instance (cv.save() inserts the new row, or updates the row it has read)
update_current_vital(cvs, instance) ==
    LET dev == instance.device
        found == RowsOf(cvs, dev)
        row == [device |-> dev, ts |-> instance.ts,
                lat |-> instance.lat, lon |-> instance.lon]
    IN  IF found = {} THEN cvs \cup {row}
        ELSE LET cv == CHOOSE c \in found : TRUE IN
             IF KeepsStored(instance, cv) THEN cvs
             ELSE (cvs \ {cv}) \cup {row}

InitTrack ==
    /\ readings = {}
    /\ current_vitals = {}
    /\ trk = NoTrack

\* a reading is stored (Reading.objects.create)
StoreReading ==
    /\ trk = NoTrack
    /\ Cardinality(readings) < MaxRows
    /\ \E r \in TrackReadings \ readings :
          /\ readings' = readings \cup {r}
          /\ current_vitals' = update_current_vital(current_vitals, r)
    /\ UNCHANGED trk

\* the request gets past the parameter checks of api_tracking
TrackingAsksUpstream(device_id, date_raw) ==
    /\ Truthy(strip(Or(device_id, EmptyStr)))
    /\ Truthy(strip(Or(date_raw, EmptyStr)))
    /\ strptime(date_raw, "%d-%m-%Y").ok \/ strptime(date_raw, "%Y-%m-%d").ok

\* GET /api/tracking/: the upstream holds the rows xs, and the GET the handler
\* issues ends in one of its outcomes
ApiTracking ==
    /\ trk = NoTrack
    /\ \E device_id \in TrackDeviceIds, date_raw \in TrackDates :
       \E xs \in IF TrackingAsksUpstream(device_id, date_raw) /\ settings.base_url
                 THEN DistinctSeqsUpTo(TrackRecords, MaxRows - Cardinality(readings))
                 ELSE {<<>>} :
       \E o \in IF TrackingAsksUpstream(device_id, date_raw) /\ settings.base_url
                THEN TrackOutcomes(xs) ELSE {Skipped} :
        trk' = Tracking(device_id, date_raw, settings, o)
    /\ UNCHANGED <<readings, current_vitals>>

\* GET /api/tracking/download/
ApiTrackingDownload ==
    /\ trk = NoTrack
    /\ \E device_id \in TrackDeviceIds, date_raw \in TrackDates :
        trk' = TrackingDownload(device_id, date_raw, readings)
    /\ UNCHANGED <<readings, current_vitals>>

\* the response is delivered; the process is ready for the next request
TrackDeliver ==
    /\ trk # NoTrack
    /\ trk' = NoTrack
    /\ UNCHANGED <<readings, current_vitals>>

\* a second row of d1 at 10:20, at another position than RowA20
RowA20b == JObj(<< <<"device_id", D1>>, <<"timestamp", IsoStr(T0 + 20)>>,
                   <<"lat", JNum(2)>>, <<"lon", JNum(77)>> >>)

\* the rows of an upstream that holds two rows of one instant
TiedRecords == {RowA0, RowA20, RowA20b, RowA41, RowA50, RowB20}

\* GET /api/tracking/ at that upstream, which answers its rows in any order
ApiTrackingTied ==
    /\ trk = NoTrack
    /\ \E device_id \in TrackDeviceIds, date_raw \in TrackDates :
       \E xs \in IF TrackingAsksUpstream(device_id, date_raw) /\ settings.base_url
                 THEN DistinctSeqsUpTo(TiedRecords, MaxRows)
                 ELSE {<<>>} :
       \E o \in IF TrackingAsksUpstream(device_id, date_raw) /\ settings.base_url
                THEN TrackOutcomes(xs) ELSE {Skipped} :
        trk' = Tracking(device_id, date_raw, settings, o)
    /\ UNCHANGED <<readings, current_vitals>>

-----------------------------------------------------------------------------
(* The CurrentVital snapshot and the Excel logger                             *)
(* (models.py update_current_vital, start_excel_logger.py Command.handle)     *)

\* Person.objects.filter(device__isnull=False).order_by("id"): the persons
\* that wear a device, by their devices
PersonDevices == <<D1, D2>>

\* the readings that get saved: for d1 two readings of the same instant with
\* different positions and a later one, for d2 an earlier and a later one
VitalReadings ==
    {ReadingRow(D1, L0, JNum(0), JNum(77)),
     ReadingRow(D1, L0, JNum(9), JNum(77)),
     ReadingRow(D1, L0 + 30, JNum(1), JNum(77)),
     ReadingRow(D2, L0, JNum(6), JNum(77)),
     ReadingRow(D2, L0 + 30, JNum(5), JNum(77))}

\* `if last_ts is not None and cv.ts <= last_ts: continue`
WroteLater(cv, last_ts) == ~IsNone(last_ts) /\ cv.ts.n < last_ts.n
AlreadyWritten(cv, last_ts) == ~IsNone(last_ts) /\ cv.ts.n <= last_ts.n

\* row_from_cv: the date, the time of day and the device of the row
row_from_cv(dev, cv) ==
    [device |-> dev, day |-> date(localtime(cv.ts)), time |-> strftime(localtime(cv.ts)),
     ts |-> cv.ts]

Asleep == [pc |-> "sleep", todo |-> <<>>]

\* the logger after the body of the for loop ran for the head of todo
Continue(todo) == IF Tail(todo) = <<>> THEN Asleep ELSE [pc |-> "loop", todo |-> Tail(todo)]

InitLogger ==
    /\ last_written_ts = [d \in SeqRange(PersonDevices) |-> JNull]
    /\ sheet = <<>>
    /\ lg = Asleep
    /\ locked = {}

\* a Reading is saved: a new row, or a row that is saved again
SaveVital ==
    \E r \in VitalReadings :
        /\ readings' = readings \cup {r}
        /\ current_vitals' = update_current_vital(current_vitals, r)
        /\ UNCHANGED <<trk, log_vars>>

\* a workbook becomes unwritable (it is open in another program), one at a time
LockWorkbook ==
    /\ locked = {}
    /\ \E d \in SeqRange(PersonDevices) : locked' = {d}
    /\ UNCHANGED <<trk_vars, last_written_ts, sheet, lg>>

\* the workbook is writable again
UnlockWorkbook ==
    /\ locked # {}
    /\ locked' = {}
    /\ UNCHANGED <<trk_vars, last_written_ts, sheet, lg>>

\* time.sleep(interval) returns; the persons are queried
LoggerPoll ==
    /\ lg.pc = "sleep"
    /\ lg' = [pc |-> "loop", todo |-> PersonDevices]
    /\ UNCHANGED <<trk_vars, last_written_ts, sheet, locked>>

\* the body of `for p in persons` for the next person; an exception of the
\* write leaves the for loop for the handler around it
LoggerPerson ==
    /\ lg.pc = "loop"
    /\ \E dev \in {Head(lg.todo)} :
       \E found \in {RowsOf(current_vitals, dev)} :
          IF found = {}
          THEN /\ lg' = Continue(lg.todo)
               /\ UNCHANGED <<last_written_ts, sheet>>
          ELSE \E cv \in found :
               IF AlreadyWritten(cv, last_written_ts[dev])
               THEN /\ lg' = Continue(lg.todo)
                    /\ UNCHANGED <<last_written_ts, sheet>>
               ELSE IF dev \in locked
               THEN /\ lg' = Asleep
                    /\ UNCHANGED <<last_written_ts, sheet>>
               ELSE /\ sheet' = Append(sheet, row_from_cv(dev, cv))
                    /\ last_written_ts' = [last_written_ts EXCEPT ![dev] = cv.ts]
                    /\ lg' = Continue(lg.todo)
    /\ UNCHANGED <<trk_vars, locked>>

-----------------------------------------------------------------------------
(* The timestamp sanitizer on its own: one raw value in, one result out *)

\* how many blanks may surround a numeric string
MaxPad == 1

\* k blanks
Pad(k) == [i \in 1..k |-> " "]

\* the instants the raw values spell: around the epoch, around the start of
\* 2010 in UTC and in local time, and around the clock of the other components
TsInstants == {0, 5, Y2010 - TZ_OFFSET, Y2010 - 1, Y2010, Y2010 + 1,
               Y2010 + TZ_OFFSET - 1, Y2010 + TZ_OFFSET, T_stale, T_mid, T_fresh}

\* the raw timestamps: epoch numbers, numeric strings, ISO texts with and
\* without a zone, datetimes, and values that are no timestamp at all
TsRaws ==
    {JNum(n) : n \in TsInstants}
    \cup {Txt(Pad(a) \o DigitsOf(n) \o Pad(b)) : n \in TsInstants, a \in 0..MaxPad, b \in 0..MaxPad}
    \cup {IsoStr(n) : n \in TsInstants}
    \cup {NaiveIso(n) : n \in TsInstants}
    \cup {DateTime(n) : n \in TsInstants}
    \cup {JNull, EmptyStr, Junk, Txt(Pad(1)), JNum(-1), Txt(<<"1", ".", "5">>),
          Txt(<<"-", "5">>), JList(<<>>), JObj(<<>>)}

InitSan ==
    /\ san_in \in TsRaws
    /\ san_out = NotRun

\* a reader parses and sanitizes the raw value
Sanitize ==
    /\ san_out = NotRun
    /\ san_out' = _sanitize_ts(_parse_ts_any(san_in))
    /\ UNCHANGED san_in

-----------------------------------------------------------------------------
(* Specifications: one per component, the other components at rest *)

ShapeIdle == sh_in = JNull /\ sh_out = NotRun /\ sh_env = NotRun
AggIdle ==
    /\ now = Clock0
    /\ RECENT_CACHE = <<>>
    /\ call = NoCall
    /\ response = NoResponse
TrackIdle == readings = {} /\ current_vitals = {} /\ trk = NoTrack
SanIdle == san_in = JNull /\ san_out = NotRun
RaceIdle == InitRace
LoggerIdle == InitLogger

InitShapeOnly == InitShape /\ AggIdle /\ settings \in {[devices_url |-> TRUE, base_url |-> TRUE, gsm_url |-> FALSE]} /\ TrackIdle /\ SanIdle /\ RaceIdle /\ LoggerIdle
NextShape == (Normalize \/ NormalizeEnvelope) /\ UNCHANGED <<agg_vars, trk_vars, san_vars, race_vars, log_vars>>
SpecShape == InitShapeOnly /\ [][NextShape]_vars

InitAggOnly == InitAgg /\ ShapeIdle /\ TrackIdle /\ SanIdle /\ RaceIdle /\ LoggerIdle
NextAgg ==
    (Tick \/ IngestVitals \/ ApiCurrentRecent \/ Deliver)
    /\ UNCHANGED <<sh_vars, trk_vars, san_vars, race_vars, log_vars>>
SpecAgg == InitAggOnly /\ [][NextAgg]_vars

InitTrackOnly ==
    /\ InitTrack
    /\ ShapeIdle
    /\ AggIdle
    /\ settings \in {s \in Settings : ~s.gsm_url}
    /\ SanIdle
    /\ RaceIdle
    /\ LoggerIdle
NextTrack ==
    (StoreReading \/ ApiTracking \/ ApiTrackingDownload \/ TrackDeliver)
    /\ UNCHANGED <<sh_vars, agg_vars, san_vars, race_vars, log_vars>>
SpecTrack == InitTrackOnly /\ [][NextTrack]_vars

\* the two read paths in one process that serves one request at a time:
\* devices push, the map polls, and the tracking page asks before the first push
InitReads ==
    /\ InitAgg
    /\ InitTrack
    /\ ShapeIdle
    /\ SanIdle
    /\ RaceIdle
    /\ LoggerIdle
NextReads ==
    \/ /\ trk = NoTrack
       /\ IngestVitals \/ ApiCurrentRecent \/ Deliver
       /\ UNCHANGED <<sh_vars, trk_vars, san_vars, race_vars, log_vars>>
    \/ /\ call = NoCall
       /\ RECENT_CACHE = <<>>
       /\ ApiTracking \/ TrackDeliver
       /\ UNCHANGED <<sh_vars, agg_vars, san_vars, race_vars, log_vars>>
SpecReads == InitReads /\ [][NextReads]_vars

InitSanOnly ==
    /\ InitSan
    /\ ShapeIdle
    /\ AggIdle
    /\ settings \in {[devices_url |-> TRUE, base_url |-> TRUE, gsm_url |-> FALSE]}
    /\ TrackIdle
    /\ RaceIdle
    /\ LoggerIdle
NextSan == Sanitize /\ UNCHANGED <<sh_vars, agg_vars, trk_vars, race_vars, log_vars>>
SpecSan == InitSanOnly /\ [][NextSan]_vars

\* the threads of one process: each ingest thread serves one POST, the read
\* thread one GET, their statements interleaved in every order
InitRaceOnly ==
    /\ InitRace
    /\ ShapeIdle
    /\ AggIdle
    /\ settings = RegistryOnly
    /\ TrackIdle
    /\ SanIdle
    /\ LoggerIdle
NextRace ==
    /\ \/ \E w \in Writers : WStart(w) \/ WLookup(w) \/ WBind(w) \/ WBuild(w) \/ WStore(w)
       \/ RList \/ RTs \/ RRest \/ RFold
    /\ UNCHANGED <<sh_vars, agg_vars, trk_vars, san_vars, log_vars>>
SpecRace == InitRaceOnly /\ [][NextRace]_vars

\* the tracking page polls while the upstream answers in any row order
InitOrderOnly ==
    /\ InitTrack
    /\ ShapeIdle
    /\ AggIdle
    /\ settings \in {s \in Settings : ~s.gsm_url}
    /\ SanIdle
    /\ RaceIdle
    /\ LoggerIdle
NextOrder ==
    (ApiTrackingTied \/ TrackDeliver)
    /\ UNCHANGED <<sh_vars, agg_vars, san_vars, race_vars, log_vars>>
SpecOrder == InitOrderOnly /\ [][NextOrder]_vars

\* readings are saved while the Excel logger runs; workbooks get locked and
\* released. The logger sleeps for a bounded time and is then scheduled again
InitLoggerOnly ==
    /\ InitLogger
    /\ InitTrack
    /\ ShapeIdle
    /\ AggIdle
    /\ settings = RegistryOnly
    /\ SanIdle
    /\ RaceIdle
NextLogger ==
    /\ SaveVital \/ LockWorkbook \/ UnlockWorkbook \/ LoggerPoll \/ LoggerPerson
    /\ UNCHANGED <<sh_vars, agg_vars, san_vars, race_vars>>
SpecLogger == InitLoggerOnly /\ [][NextLogger]_vars
SpecLoggerFair ==
    SpecLogger /\ WF_vars(LoggerPoll /\ UNCHANGED <<sh_vars, agg_vars, san_vars, race_vars>>)
               /\ WF_vars(LoggerPerson /\ UNCHANGED <<sh_vars, agg_vars, san_vars, race_vars>>)

-----------------------------------------------------------------------------
(* Properties of the record normalizer *)

\* C10: for every payload X, _shape_to_list({"body": json(X)}) returns the same
\* record list as _shape_to_list(X)
C10_EnvelopeSameAsDirect ==
    (sh_out # NotRun /\ sh_env # NotRun) => sh_env.rows = sh_out.rows

\* both calls have returned, and the payload holds records
C10_Witness ==
    /\ sh_out # NotRun
    /\ sh_env # NotRun
    /\ Len(sh_out.rows) = MaxListLen

\* the list under items, or else under Items, of an object that has one
ItemsListOf(obj) ==
    IF IsList(Get(obj, "items")) THEN Get(obj, "items").xs ELSE Get(obj, "Items").xs
\* the payload is an object with both an items list and a body text
BothItemsAndBody ==
    /\ IsDict(sh_in)
    /\ IsList(Get(sh_in, "items")) \/ IsList(Get(sh_in, "Items"))
    /\ HasBodyText(sh_in)
\* what the text under body decodes and normalizes to
BodyRows ==
    LET r == json_loads(Get(sh_in, "body")) IN
    IF r.ok THEN _shape_to_list(r.v) ELSE <<>>

\* C11 as stated: an object carrying both an items list and a string body
\* yields the records of the items list
C11_ItemsListWinsOverBody ==
    (sh_out # NotRun /\ BothItemsAndBody) => sh_out.rows = OnlyDicts(ItemsListOf(sh_in))

\* C11 as the code has it: the body envelope is tried first, so an object
\* carrying both an items list and a string body yields the records its body
\* decodes to (none when the body is no JSON), and the items list is not read
C11_BodyWinsOverItemsList ==
    (sh_out # NotRun /\ BothItemsAndBody) => sh_out.rows = BodyRows

\* an object with an items list and a body that decodes to other records has
\* been normalized
C11_Witness ==
    /\ sh_out # NotRun
    /\ BothItemsAndBody
    /\ BodyRows # <<>>
    /\ BodyRows # OnlyDicts(ItemsListOf(sh_in))

-----------------------------------------------------------------------------
(* Properties of the timestamp sanitizer *)

\* the instant a raw value spells, -1 when it spells none: an epoch number, an
\* all-digit string once stripped, an ISO text (one without a zone is local
\* time), a datetime
SpeltInstant(raw) ==
    CASE raw.t = "num" -> raw.n
      [] raw.t = "dt" -> raw.n
      [] raw.t = "str" /\ raw.s.c = "iso" -> raw.s.n
      [] raw.t = "str" /\ raw.s.c = "naive" -> raw.s.n - TZ_OFFSET
      [] raw.t = "str" /\ raw.s.c = "chars" /\ isdigit(StripChars(raw.s.ch)) ->
            DigitsValue(StripChars(raw.s.ch))
      [] OTHER -> -1

\* C13: _sanitize_ts(_parse_ts_any(raw)) is none or an instant of year >= 2010;
\* a missing, empty or unparseable value, and any value that spells an instant
\* before 2010, gives none
C13_NoneOrFrom2010 ==
    san_out # NotRun =>
        /\ IsNone(san_out) \/ (san_out.t = "dt" /\ san_out.n >= Y2010)
        /\ SpeltInstant(san_in) < Y2010 => IsNone(san_out)

\* a numeric string that spells an instant before 2010 has been sanitized to none
C13_Witness ==
    /\ san_out # NotRun
    /\ san_in.t = "str"
    /\ SpeltInstant(san_in) > 0
    /\ SpeltInstant(san_in) < Y2010
    /\ IsNone(san_out)

-----------------------------------------------------------------------------
(* Properties of the aggregation read *)

\* an aggregation request has been answered with a list
Answered == call.handler = "api_current_recent" /\ response.status = 200

\* the instant an item carries
ItemTs(it) == _parse_ts_any(it.ts).n
\* the device an item of the merged list is folded under ("" for none)
FoldId(it) == strip(PyStr(Or(it.device_id, EmptyStr)))
\* the samples of the merged list that the fold considers, by position
Samples == {i \in 1..Len(call.items) : Truthy(FoldId(call.items[i]))}
\* the entry the response holds for a device
EntryOf(dev_id) ==
    response.items[CHOOSE k \in 1..Len(response.items) : response.items[k].device_id = dev_id]

\* C1: no item api_current_recent returns has a timestamp earlier than now - m,
\* m the staleness window of the request
C1_NoItemOlderThanWindow ==
    Answered =>
        \A k \in 1..Len(response.items) :
            ItemTs(response.items[k]) >= now - call.max_age_min

\* C2: for each device the entry the fold retains carries a timestamp at least as
\* great as that of every surviving sample of the device, whatever its source
\* and position
C2_RetainsGreatestTimestamp ==
    Answered =>
        \A i \in Samples :
            /\ \E k \in 1..Len(response.items) :
                  response.items[k].device_id = FoldId(call.items[i])
            /\ ItemTs(EntryOf(FoldId(call.items[i]))) >= ItemTs(call.items[i])

\* a newer sample of a device was folded before an older one, and one the other
\* way round
C2_Witness ==
    /\ Answered
    /\ \E i, j \in Samples :
          /\ i < j
          /\ FoldId(call.items[i]) = FoldId(call.items[j])
          /\ ItemTs(call.items[i]) > ItemTs(call.items[j])
          /\ ItemTs(EntryOf(FoldId(call.items[i]))) = ItemTs(call.items[i])

\* the samples of the device of sample i that carry its greatest timestamp
Greatest(i) ==
    LET same == {j \in Samples : FoldId(call.items[j]) = FoldId(call.items[i])}
    IN  {j \in same : \A k \in same : ItemTs(call.items[k]) <= ItemTs(call.items[j])}
\* two items carry the same reading (the fold rewrites device_id and label only)
SameReading(a, b) == a.lat = b.lat /\ a.lon = b.lon /\ a.hr = b.hr /\ a.ts = b.ts

Failed(k) == call.fetch[k] \in {"exception", "status"}
\* source k was asked
Asked(k) == call.fetch[k] # "skipped"

\* C4: a source whose fetch fails contributes no samples and does not keep the
\* sources after it from being asked and folded; when every remote source fails
\* and the local cache is empty the answer is 200 with an empty list
C4_FailedSourceContributesNothing ==
    call.handler = "api_current_recent" =>
        /\ \A k \in 1..3 : Failed(k) => call.rows[k] = <<>>
        /\ Failed(1) => ((settings.base_url => Asked(2)) /\ (settings.gsm_url => Asked(3)))
        /\ Failed(2) => (settings.gsm_url => Asked(3))
        /\ (\E k \in 1..3 : Failed(k)) =>
              call.items = CacheItems(call.cache_vals) \o merge_rows(call.rows[1])
                           \o merge_rows(call.rows[2]) \o merge_rows(call.rows[3])
        /\ ((\A k \in 1..3 : Asked(k) => Failed(k)) /\ call.cache_vals = <<>>) =>
              (response.status = 200 /\ response.items = <<>>)

\* the registry failed, and a later source still supplied the answer
C4_Witness ==
    /\ Answered
    /\ Failed(1)
    /\ \E k \in 2..3 : Asked(k) /\ ~Failed(k) /\ call.rows[k] # <<>>
    /\ response.items # <<>>

\* a raw record of a remote source has what an item needs: a device id, a
\* timestamp that parses and passes the sanitizer, and both coordinates
Complete(row) == \E m \in {MergeRow(row)} : m # <<>> /\ Truthy(FoldId(m[1]))
\* the same for an entry of the local cache
CompleteEntry(e) == CacheItem(e) # <<>>
\* the answer the handler gives when only the complete records are there
AnswerOfComplete ==
    Dedup(CacheItems(SelectSeq(call.cache_vals, CompleteEntry))
          \o merge_rows(SelectSeq(call.rows[1], Complete))
          \o merge_rows(SelectSeq(call.rows[2], Complete))
          \o merge_rows(SelectSeq(call.rows[3], Complete)), <<>>)

HasLastSeenAndRaw(row) ==
    /\ ~IsNone(_pick(row, <<"last_seen", "lastSeen">>, JNull))
    /\ ~IsNone(_pick(row, <<"timestamp", "ts">>, JNull))
\* the instant its last-seen field holds, the instant its raw reading timestamp holds
LastSeenOf(row) == _parse_ts_any(_pick(row, <<"last_seen", "lastSeen">>, JNull))
RawTsOf(row) == _parse_ts_any(_pick(row, <<"timestamp", "ts">>, JNull))

\* C12: a complete remote record that carries both a last-seen field and a raw
\* reading timestamp enters the merged list with the last-seen instant as its
\* timestamp, also when that is older than the raw reading timestamp
C12_LastSeenPreferred ==
    Answered =>
        \A k \in 1..3 : \A a \in 1..Len(call.rows[k]) :
            (HasLastSeenAndRaw(call.rows[k][a]) /\ Complete(call.rows[k][a])) =>
                \E i \in 1..Len(call.items) :
                    /\ call.items[i] = MergeRow(call.rows[k][a])[1]
                    /\ ItemTs(call.items[i]) = LastSeenOf(call.rows[k][a]).n

\* a record whose last-seen instant is older than its raw reading timestamp was
\* returned with the last-seen instant
C12_Witness ==
    /\ Answered
    /\ \E k \in 1..3 : \E a \in 1..Len(call.rows[k]) :
          /\ HasLastSeenAndRaw(call.rows[k][a])
          /\ LastSeenOf(call.rows[k][a]).n < RawTsOf(call.rows[k][a]).n
          /\ \E i \in 1..Len(response.items) :
                ItemTs(response.items[i]) = LastSeenOf(call.rows[k][a]).n

\* the instants from 2010 on that a remote record of the aggregation supplies
\* under one of its timestamp keys, that an entry of the local cache supplies,
\* and that a row of the tracking upstream supplies
RowInstants(row) ==
    {n \in {SpeltInstant(Get(row, MergeTsKeys[k])) : k \in 1..Len(MergeTsKeys)} : n >= Y2010}
EntryInstants(e) == {n \in {SpeltInstant(e.ts)} : n >= Y2010}
TrackRowInstants(row) ==
    {n \in {SpeltInstant(Get(row, "timestamp")), SpeltInstant(Get(row, "ts"))} : n >= Y2010}
\* the samples of an aggregation request that supply such an instant, by
\* source (0: the local cache) and position
DatedSamples ==
    {<<0, a>> : a \in {b \in 1..Len(call.cache_vals) : EntryInstants(call.cache_vals[b]) # {}}}
    \cup UNION {{<<k, a>> : a \in {b \in 1..Len(call.rows[k]) : RowInstants(call.rows[k][b]) # {}}} :
                 k \in 1..3}
\* every instant the samples of the aggregation request supply
AggSupplied ==
    UNION {EntryInstants(call.cache_vals[a]) : a \in 1..Len(call.cache_vals)}
    \cup UNION {UNION {RowInstants(call.rows[k][a]) : a \in 1..Len(call.rows[k])} : k \in 1..3}
\* the same for the rows of a tracking request
DatedTrackRows == {a \in 1..Len(trk.rows) : TrackRowInstants(trk.rows[a]) # {}}
TrackSupplied == UNION {TrackRowInstants(trk.rows[a]) : a \in 1..Len(trk.rows)}

\* C14: on the aggregation and tracking read paths a record without a valid
\* timestamp is dropped and the current time is never put in its place: every
\* item and every point carries an instant that a record of the request
\* supplied, and there are no more items or points than records that supply one
C14_ReadsNeverStampNow ==
    /\ call.handler = "api_current_recent" =>
          /\ \A i \in 1..Len(call.items) : ItemTs(call.items[i]) \in AggSupplied
          /\ \A i \in 1..Len(response.items) : ItemTs(response.items[i]) \in AggSupplied
          /\ Len(call.items) <= Cardinality(DatedSamples)
    /\ (trk.handler = "api_tracking" /\ trk.status = 200) =>
          /\ \A i \in 1..Len(trk.points) : trk.points[i].dt.n \in TrackSupplied
          /\ Len(trk.points) <= Cardinality(DatedTrackRows)
          /\ \A k \in 1..Len(trk.trips) : \A i \in 1..Len(trk.trips[k].points) :
                trk.trips[k].points[i].ts \in {strftime(DateTime(n)) : n \in TrackSupplied}

\* a tracking request met a row of its device that has no timestamp next to
\* rows that have one, and answered with a trip
C14_Witness ==
    /\ trk.handler = "api_tracking"
    /\ trk.status = 200
    /\ \E a \in 1..Len(trk.rows) : trk.rows[a] = RowNoTs
    /\ trk.trips # <<>>

-----------------------------------------------------------------------------
(* Properties of the local ingest write *)

\* an ingest write has been accepted
Accepted == call.handler = "ingest_vitals" /\ response.status = 200
\* the payload of the write, and the device id it names
Pushed == json_loads(call.body).v
PushedId == strip(Or(Or(Or(Get(Pushed, "device_id"), Get(Pushed, "node_id")),
                        Get(Pushed, "id")), EmptyStr))
\* the positions of a device id in a snapshot
Slots(cache, dev_id) == {i \in 1..Len(cache) : cache[i].device_id = dev_id}
\* the device ids a snapshot holds
IdsOf(cache) == {cache[i].device_id : i \in 1..Len(cache)}

\* C15: an accepted write leaves exactly one entry under its device id, the
\* entry of that write whatever timestamp the entry before it had, and leaves
\* the entries of every other device id as they were; a write that is not
\* accepted leaves the snapshot as it was
C15_LastWriteWins ==
    /\ Accepted =>
          /\ Cardinality(Slots(RECENT_CACHE, PushedId)) = 1
          /\ \A i \in Slots(RECENT_CACHE, PushedId) :
                /\ RECENT_CACHE[i].ts.n =
                      (IF SpeltInstant(Get(Pushed, "timestamp")) >= 0
                       THEN SpeltInstant(Get(Pushed, "timestamp")) ELSE now)
                /\ RECENT_CACHE[i].lat = _to_float(Get(Pushed, "lat"))
                /\ RECENT_CACHE[i].lon = _to_float(Get(Pushed, "lon"))
          /\ IdsOf(RECENT_CACHE) = IdsOf(call.cache_before) \cup {PushedId}
          /\ \A d \in IdsOf(call.cache_before) \ {PushedId} :
                {RECENT_CACHE[i] : i \in Slots(RECENT_CACHE, d)}
                    = {call.cache_before[i] : i \in Slots(call.cache_before, d)}
    /\ (call.handler = "ingest_vitals" /\ response.status # 200) =>
          RECENT_CACHE = call.cache_before

\* a write with an older timestamp replaced the entry of its device while the
\* entry of another device stayed
C15_Witness ==
    /\ Accepted
    /\ Len(RECENT_CACHE) = 2
    /\ \E i \in Slots(call.cache_before, PushedId) : \E j \in Slots(RECENT_CACHE, PushedId) :
          RECENT_CACHE[j].ts.n < call.cache_before[i].ts.n

\* the payload of the write carries no timestamp
PushedUndated == IsNone(Get(Pushed, "timestamp"))
\* an entry of the snapshot has both coordinates
Located(e) == ~IsNone(e.lat) /\ ~IsNone(e.lon)

-----------------------------------------------------------------------------
(* Properties of the order of the sources *)

\* the order of the sections A) to D) of api_current_recent
SourceOrder == <<"cache", "registry", "bulk", "gsm">>
Rank(src) == CHOOSE i \in 1..Len(SourceOrder) : SourceOrder[i] = src
ConsultedSrc(src) == \E i \in 1..Len(call.consulted) : call.consulted[i] = src

\* the primary registry yielded nothing: it is not configured, its fetch
\* failed, it answered an error status, or it answered no records
RegistryYieldedNothing == ~Asked(1) \/ Failed(1) \/ call.rows[1] = <<>>

-----------------------------------------------------------------------------
(* Properties of the local-ingest snapshot *)

\* the step is a call of api_current_recent
ReadStep == call.handler = "none" /\ call'.handler = "api_current_recent"

StoredEntries == {wr[w].entry : w \in {v \in Writers : wr[v].pc = "done" /\ wr[v].status = 200}}
\* the entries an ingest thread has built, stored or about to be stored
BuiltEntries == {wr[w].entry : w \in {v \in Writers : wr[v].pc \in {"store", "done"}
                                                       /\ wr[v].entry # JNull}}
SeenIds == {rd.seen[k].device_id : k \in 1..Len(rd.seen)}

\* C23: when ingest writes race with an aggregation read, under every
\* interleaving the read completes without error and uses, for each device, one
\* complete entry that an ingest write stored, never a partly written entry or
\* a mix of the fields of two writes; the dict always holds such entries only
C23_RacingReadUsesWholeEntries ==
    /\ \A i \in 1..Len(glob.slots) :
          /\ heap[glob.slots[i].ref] \in StoredEntries
          /\ heap[glob.slots[i].ref].device_id = glob.slots[i].device_id
    /\ \A k \in 1..Len(heap) : heap[k] \in BuiltEntries
    /\ \A k \in 1..Len(rd.seen) : rd.seen[k] \in StoredEntries
    /\ rd.pc = "done" =>
          /\ rd.status = 200
          /\ Len(rd.seen) = Len(rd.vals)
          /\ Cardinality(SeenIds) = Len(rd.seen)
          /\ \A k \in 1..Len(rd.items) :
                \E a \in 1..Len(rd.seen) :
                    /\ rd.items[k].device_id = rd.seen[a].device_id
                    /\ rd.items[k].lat = _to_float(rd.seen[a].lat)
                    /\ ItemTs(rd.items[k]) = rd.seen[a].ts.n

\* the read listed the entry of d1, a second write for d1 replaced it before
\* the read looked at its fields, and the read answered with the entry it listed
C23_Witness ==
    /\ rd.pc = "done"
    /\ rd.items # <<>>
    /\ \E i \in 1..Len(glob.slots) : \E a \in 1..Len(rd.seen) :
          /\ glob.slots[i].device_id = rd.seen[a].device_id
          /\ heap[glob.slots[i].ref] # rd.seen[a]
          /\ glob.slots[i].ref # rd.vals[a]

\* C27: the item list returned by api_current_recent contains at most one item
\* per device_id, device ids being compared after conversion to string and
\* whitespace trimming, for any combination of source contents; every item
\* carries its id in that form, and every id the sources gave is in the list
C27_OneItemPerDevice ==
    Answered =>
        /\ \A i \in 1..Len(response.items) : \A j \in 1..Len(response.items) :
              i # j => strip(PyStr(response.items[i].device_id))
                       # strip(PyStr(response.items[j].device_id))
        /\ \A k \in 1..Len(response.items) :
              response.items[k].device_id = strip(PyStr(response.items[k].device_id))
        /\ \A a \in 1..Len(call.items) :
              Truthy(strip(PyStr(Or(call.items[a].device_id, EmptyStr)))) =>
                  \E k \in 1..Len(response.items) :
                      response.items[k].device_id
                          = strip(PyStr(Or(call.items[a].device_id, EmptyStr)))

\* two sources named device d1, one of them with blanks around the id, and the
\* answer holds one item for it
C27_Witness ==
    /\ Answered
    /\ Len(response.items) = 1
    /\ \E a \in 1..Len(call.items) : \E b \in 1..Len(call.items) :
          /\ call.items[a].device_id = D1
          /\ call.items[b].device_id # D1
          /\ strip(PyStr(call.items[b].device_id)) = D1
    /\ call.rows[1] # <<>>
    /\ call.rows[3] # <<>>

\* the body json.loads is given (`request.body or "{}"`) and what it yields
PostedText == IF Truthy(call.body) THEN call.body ELSE TextOf(json_dumps(JObj(<<>>)))
BodyParses == json_loads(PostedText).ok
PostedObject == BodyParses /\ IsDict(json_loads(PostedText).v)
\* the value found under device_id, node_id or id, "" when there is none
PostedRawId ==
    Or(Or(Or(Get(json_loads(PostedText).v, "device_id"),
             Get(json_loads(PostedText).v, "node_id")),
          Get(json_loads(PostedText).v, "id")), EmptyStr)
\* the request names a device: a non-empty id after trimming
NamesDevice == PostedObject /\ IsStr(PostedRawId) /\ Truthy(strip(PostedRawId))

\* C28: a rejected ingest_vitals request (wrong or missing secret: 401; a body
\* that is not valid JSON: 400; no device id under device_id, node_id or id:
\* 400) returns an error status and leaves the local-ingest snapshot exactly as
\* it was; only a request with the correct secret and a non-empty device id
\* changes the snapshot, and such a request is stored
C28_RejectedIngestChangesNothing ==
    call.handler = "ingest_vitals" =>
        /\ ~call.secret_ok => response.status = 401
        /\ (call.secret_ok /\ ~BodyParses) => response.status = 400
        /\ (call.secret_ok /\ PostedObject /\ IsStr(PostedRawId) /\ ~NamesDevice) =>
              response.status = 400
        /\ response.status # 200 =>
              /\ response.status >= 400
              /\ RECENT_CACHE = call.cache_before
        /\ RECENT_CACHE # call.cache_before =>
              /\ call.secret_ok
              /\ NamesDevice
              /\ response.status = 200
        /\ (call.secret_ok /\ NamesDevice) =>
              /\ response.status = 200
              /\ strip(PostedRawId) \in IdsOf(RECENT_CACHE)

\* a push that names a device the snapshot does not hold came with a wrong
\* secret, was answered 401, and the snapshot holds what it held
C28_Witness ==
    /\ call.handler = "ingest_vitals"
    /\ ~call.secret_ok
    /\ NamesDevice
    /\ response.status = 401
    /\ RECENT_CACHE # <<>>
    /\ strip(PostedRawId) \notin IdsOf(RECENT_CACHE)

-----------------------------------------------------------------------------
(* Properties of the trip segmenters *)

\* a tracking request, an export request, has been answered with its segments
Tracked == trk.handler = "api_tracking" /\ trk.status = 200
Exported == trk.handler = "api_tracking_download" /\ trk.status = 200

\* the instants of the time-ordered list the segmenter of the request was given
Times ==
    IF trk.handler = "api_tracking" THEN [k \in 1..Len(trk.points) |-> trk.points[k].dt.n]
    ELSE [k \in 1..Len(trk.readings) |-> trk.readings[k].ts.n]
\* the point a segment shows for entry k of that list
Shown(k) ==
    IF trk.handler = "api_tracking"
    THEN [lat |-> trk.points[k].lat, lng |-> trk.points[k].lon,
          ts |-> strftime(trk.points[k].dt)]
    ELSE [lat |-> trk.readings[k].lat.n, lng |-> trk.readings[k].lon.n,
          time |-> strftime(localtime(trk.readings[k].ts))]
\* the gap threshold of the segmenter of the request
Threshold == IF trk.handler = "api_tracking" THEN MAX_GAP_MIN ELSE DEFAULT_MAX_GAP_MINUTES
\* the clock time of point i of segment s
Clock(s, i) ==
    IF trk.handler = "api_tracking" THEN trk.trips[s].points[i].ts
    ELSE trk.trips[s].points[i].time

\* the positions of the list after which a run of runs ends and another starts
RunEnds(runs) == {SumSeq([m \in 1..n |-> Len(runs[m])]) : n \in 1..(Len(runs) - 1)}
\* entries k and k + 1 of the list are neighbours in one emitted segment
Adjacent(k) ==
    \E s \in 1..Len(trk.trips) : \E i \in 1..(Len(trk.trips[s].points) - 1) :
        trk.trips[s].points[i] = Shown(k) /\ trk.trips[s].points[i + 1] = Shown(k + 1)
\* entry k of the list has no neighbour within the gap threshold
Isolated(k) ==
    /\ k > 1 => Times[k] - Times[k - 1] > Threshold
    /\ k < Len(Times) => Times[k + 1] - Times[k] > Threshold

\* C6: both segmenters start a new run between two consecutive readings exactly
\* when the later one is more than G minutes after the earlier one (G = 20 in
\* api_tracking, max_gap_minutes = 30 in the export); a gap of G or less never
\* makes a boundary
C6_BoundaryExactlyAboveGap ==
    /\ Tracked =>
          /\ Concat(trk.trips_raw) = trk.points
          /\ \A k \in 1..(Len(Times) - 1) :
                (k \in RunEnds(trk.trips_raw)) <=> (Times[k + 1] - Times[k] > MAX_GAP_MIN)
    /\ Exported =>
          \A k \in 1..(Len(Times) - 1) :
              Adjacent(k) <=> ~(Times[k + 1] - Times[k] > DEFAULT_MAX_GAP_MINUTES)

\* api_tracking met a gap of exactly G and a gap of G + 1
C6_Witness ==
    /\ Tracked
    /\ \E k \in 1..(Len(Times) - 1) : Times[k + 1] - Times[k] = MAX_GAP_MIN
    /\ \E k \in 1..(Len(Times) - 1) : Times[k + 1] - Times[k] = MAX_GAP_MIN + 1

\* C7: every segment either segmenter emits has at least 2 points, and a reading
\* whose neighbours are all beyond the gap threshold is in no segment
C7_SegmentsHaveTwoPoints ==
    (Tracked \/ Exported) =>
        /\ \A s \in 1..Len(trk.trips) : Len(trk.trips[s].points) >= 2
        /\ \A k \in 1..Len(Times) :
              Isolated(k) =>
                  \A s \in 1..Len(trk.trips) : \A i \in 1..Len(trk.trips[s].points) :
                      trk.trips[s].points[i] # Shown(k)

\* the export met a lone reading beside a run that became a segment
C7_Witness ==
    /\ Exported
    /\ trk.trips # <<>>
    /\ \E k \in 1..Len(Times) : Isolated(k)

\* C8: in the segments returned for one device and day, the points of a segment
\* are in ascending time order with every consecutive gap <= G, and the first
\* point of segment n + 1 is more than G after the last point of segment n
C8_SegmentsOrderedAndApart ==
    (Tracked \/ Exported) =>
        /\ \A s \in 1..Len(trk.trips) : \A i \in 1..(Len(trk.trips[s].points) - 1) :
              /\ Clock(s, i) <= Clock(s, i + 1)
              /\ Clock(s, i + 1) - Clock(s, i) <= Threshold
        /\ \A s \in 1..(Len(trk.trips) - 1) :
              Clock(s + 1, 1) - Clock(s, Len(trk.trips[s].points)) > Threshold

\* api_tracking returned two segments from rows that arrived out of time order
C8_Witness ==
    /\ Tracked
    /\ Len(trk.trips) >= 2
    /\ TrackPoints(trk.rows, trk.device_id, TrackDay) # trk.points

\* the length of the path through the points of a returned segment, in metres
PathLen(points) ==
    SumSeq([i \in 1..(Len(points) - 1) |->
              _haversine_km(points[i].lat, points[i].lng, points[i + 1].lat, points[i + 1].lng)])

\* C9 as stated: total_km equals the sum of the distance_km of the returned
\* segments
C9_TotalIsSumOfSegmentDistances ==
    Tracked =>
        trk.total_km = SumSeq([s \in 1..Len(trk.trips) |-> trk.trips[s].distance_km])

\* C9 as the code has it: total_km is the sum of the unrounded lengths of the
\* returned segments, rounded once to 2 decimals, and each distance_km is the
\* length of its segment rounded to 2 decimals; dropped runs add nothing
C9_TotalIsRoundedSumOfLengths ==
    Tracked =>
        /\ trk.total_km =
              round2(SumSeq([s \in 1..Len(trk.trips) |-> PathLen(trk.trips[s].points)]))
        /\ \A s \in 1..Len(trk.trips) :
              trk.trips[s].distance_km = round2(PathLen(trk.trips[s].points))

\* two segments were returned whose rounded distances do not add up to total_km
C9_Witness ==
    /\ Tracked
    /\ Len(trk.trips) = 2
    /\ trk.total_km # trk.trips[1].distance_km + trk.trips[2].distance_km

-----------------------------------------------------------------------------
(* Properties of the tracking endpoints as a whole *)

\* the two textual date formats
DateFormats == {"%d-%m-%Y", "%Y-%m-%d"}
\* the date text of the request is a date in one of the two formats
WellFormedDate == trk.date.s.c = "date" /\ trk.date.s.fmt \in DateFormats
\* the request omits device_id, omits date, or gives a date in neither format
BadTrackingRequest ==
    trk.device_id = EmptyStr \/ trk.date = EmptyStr \/ ~WellFormedDate

\* C17: a tracking request without device_id, without date or with a date in
\* neither format is answered 400, and nothing was fetched, queried or
\* segmented for it; for api_tracking and for api_tracking_download
C17_BadRequestRejectedFirst ==
    (trk # NoTrack /\ BadTrackingRequest) =>
        /\ trk.status = 400
        /\ trk.trips = <<>>
        /\ trk.handler = "api_tracking" =>
              /\ trk.fetch = "skipped"
              /\ trk.rows = <<>>
              /\ trk.points = <<>>
              /\ trk.trips_raw = <<>>
        /\ trk.handler = "api_tracking_download" =>
              /\ trk.queries = <<>>
              /\ trk.readings = <<>>
              /\ trk.csv = <<>>

\* readings are stored, and a request with a date in neither format was
\* rejected
C17_Witness ==
    /\ trk # NoTrack
    /\ trk.device_id = D1
    /\ trk.date = Junk
    /\ trk.status = 400
    /\ \E r \in readings : r.device = D1

\* the rows the upstream gave a tracking read: the list under items, or the
\* payload itself when it is a list
UpstreamRows ==
    CASE IsDict(trk.payload) /\ IsList(Get(trk.payload, "items")) -> Get(trk.payload, "items").xs
      [] IsList(trk.payload) -> trk.payload.xs
      [] OTHER -> <<>>
\* the calendar day the date text of a well-formed request names
AskedDay == trk.date.s.day
\* no reading qualifies for the request: for the read, no upstream row of the
\* device and day with a timestamp and a position; for the export, no stored
\* reading of the device in the local day with a position
ZeroQualifying ==
    IF trk.handler = "api_tracking"
    THEN \A a \in 1..Len(UpstreamRows) :
            TrackPoint(UpstreamRows[a], trk.device_id, AskedDay) = <<>>
    ELSE \A r \in readings : ~Selects(r, trk.device_id, AskedDay)

\* the export is asked in the one date format its docstring names
ExportReadsDate == trk.handler = "api_tracking_download" => trk.date.s.fmt = "%Y-%m-%d"

\* C18: a tracking read or export with a well-formed device id and date and
\* zero qualifying readings is answered with an empty, well-formed result (no
\* trips and total distance 0, or a CSV of the header row only), never with an
\* error; stated for the dates each endpoint reads, which leaves the date
\* formats of the export to C19
C18_NoDataIsEmptyResult ==
    (trk # NoTrack /\ ~BadTrackingRequest /\ ExportReadsDate /\ ZeroQualifying) =>
        /\ trk.status = 200
        /\ trk.trips = <<>>
        /\ trk.handler = "api_tracking" => trk.total_km = 0
        /\ trk.handler = "api_tracking_download" => trk.csv = <<>>

\* what api_tracking makes of the device id and date of the request at hand
\* (its checks come before its upstream GET, which is left out here)
ReadOfSame == Tracking(trk.device_id, trk.date, settings, Skipped)

\* C19 as stated: every device id and date that api_tracking accepts, in either
\* date format, api_tracking_download accepts too, and resolves to the same
\* calendar date
C19_ExportAcceptsWhatReadAccepts ==
    (trk.handler = "api_tracking_download" /\ ReadOfSame.status # 400) =>
        /\ trk.status = 200
        /\ trk.selected_date = ReadOfSame.target_date

\* C19 as the code has it: api_tracking_download accepts exactly the requests
\* whose date is written yyyy-mm-dd and whose device id names a row of the
\* Device table; each of these api_tracking accepts too, and both resolve the
\* date text to the same calendar date
C19_ExportAcceptsIsoDateOfKnownDevice ==
    trk.handler = "api_tracking_download" =>
        /\ trk.status = 200 <=>
              /\ trk.device_id \in Devices
              /\ trk.date.s.c = "date"
              /\ trk.date.s.fmt = "%Y-%m-%d"
        /\ trk.status = 200 =>
              /\ ReadOfSame.status # 400
              /\ trk.selected_date = ReadOfSame.target_date

\* the export accepted a device and day for which readings are stored
C19_Witness ==
    /\ trk.handler = "api_tracking_download"
    /\ trk.status = 200
    /\ trk.readings # <<>>
    /\ trk.selected_date = JNum(TrackDay)

\* how many data rows of the CSV come before those of segment s
RowsBefore(s) == SumSeq([k \in 1..(s - 1) |-> Len(trk.trips[k].points)])

\* C20: after the header the CSV has exactly one row per point of every emitted
\* segment, in segment order then point order, and each row carries the id,
\* start time, end time and distance of the segment that contains its point
C20_CsvRowPerSegmentPoint ==
    Exported =>
        /\ Len(trk.csv) = RowsBefore(Len(trk.trips) + 1)
        /\ \A s \in 1..Len(trk.trips) : \A i \in 1..Len(trk.trips[s].points) :
              LET row == trk.csv[RowsBefore(s) + i]
                  seg == trk.trips[s]
              IN  /\ row[1] = seg.id
                  /\ row[2] = trk.device_id
                  /\ row[3] = trk.date
                  /\ <<row[4], row[5], row[6]>> =
                        <<seg.points[i].time, seg.points[i].lat, seg.points[i].lng>>
                  /\ <<row[7], row[8], row[9]>> =
                        <<seg.start_time, seg.end_time, seg.distance_km>>
                  /\ row[7] = seg.points[1].time
                  /\ row[8] = seg.points[Len(seg.points)].time

\* an export of two segments of two points each: four data rows
C20_Witness ==
    /\ Exported
    /\ Len(trk.trips) = 2
    /\ Len(trk.csv) = 4
    /\ trk.csv[2][1] = 1
    /\ trk.csv[3][1] = 2

-----------------------------------------------------------------------------
(* Properties of the CurrentVital snapshot and the Excel logger *)

\* the saved readings of a device
SavedOf(dev) == {r \in readings : r.device = dev}
\* the row holds the values of the reading
HoldsValuesOf(cv, r) ==
    r.device = cv.device /\ r.ts = cv.ts /\ r.lat = cv.lat /\ r.lon = cv.lon

\* every device has at most one row, a device with a saved reading has one, and
\* the row holds the values of a saved reading of the greatest ts
SnapshotIsLatest ==
    \A dev \in Devices :
        /\ Cardinality(RowsOf(current_vitals, dev)) <= 1
        /\ SavedOf(dev) # {} => RowsOf(current_vitals, dev) # {}
        /\ \A cv \in RowsOf(current_vitals, dev) :
              /\ \E r \in SavedOf(dev) : HoldsValuesOf(cv, r)
              /\ \A r \in SavedOf(dev) : r.ts.n <= cv.ts.n

\* a row is never removed, its ts never decreases, and it changes only to a
\* strictly greater ts
SnapshotOnlyAdvances ==
    \A dev \in Devices :
        /\ RowsOf(current_vitals, dev) # {} => RowsOf(current_vitals', dev) # {}
        /\ \A old \in RowsOf(current_vitals, dev) : \A new \in RowsOf(current_vitals', dev) :
              /\ new.ts.n >= old.ts.n
              /\ new # old => new.ts.n > old.ts.n

\* C24: after any sequence of Reading saves for a device, its CurrentVital row
\* holds the values of a saved reading with the greatest ts among them; the
\* row is replaced only by a reading of a strictly greater ts, so its ts never
\* decreases, and there is at most one row per device
C24_CurrentVitalHoldsGreatest == []SnapshotIsLatest /\ [][SnapshotOnlyAdvances]_vars

\* two readings of d1 with the same ts and different positions and a later one
\* were saved; the row holds the later one
C24_Witness ==
    /\ {ReadingRow(D1, L0, JNum(0), JNum(77)), ReadingRow(D1, L0, JNum(9), JNum(77)),
        ReadingRow(D1, L0 + 30, JNum(1), JNum(77))} \subseteq readings
    /\ \E cv \in current_vitals : cv.device = D1 /\ cv.ts.n = L0 + 30 /\ cv.lat = JNum(1)
    /\ \E row \in SeqRange(sheet) : row.device = D1 /\ row.ts.n = L0

\* the rows of the sheet that belong to a device, by their positions
SheetRowsOf(s, dev) == {i \in 1..Len(s) : s[i].device = dev}
\* the ts of the last row written for a device, None when there is none
LastRowTs(s, dev) ==
    IF SheetRowsOf(s, dev) = {} THEN JNull
    ELSE s[CHOOSE i \in SheetRowsOf(s, dev) : \A j \in SheetRowsOf(s, dev) : j <= i].ts

\* the rows of every device carry strictly increasing timestamps, and the
\* logger's dict holds the timestamp of the device's last row
RowsStrictlyLater ==
    \A dev \in SeqRange(PersonDevices) :
        /\ \A i \in SheetRowsOf(sheet, dev) : \A j \in SheetRowsOf(sheet, dev) :
              i < j => sheet[i].ts.n < sheet[j].ts.n
        /\ last_written_ts[dev] = LastRowTs(sheet, dev)

\* a step writes at most one row, for a device whose CurrentVital.ts is
\* strictly greater than its last-written timestamp, and no last-written
\* timestamp decreases or is forgotten
WritesOnlyNewer ==
    /\ sheet' = sheet \/ \E row \in {sheet'[Len(sheet')]} :
          /\ sheet' = Append(sheet, row)
          /\ \E cv \in RowsOf(current_vitals, row.device) : cv.ts = row.ts
          /\ IsNone(last_written_ts[row.device]) \/ row.ts.n > last_written_ts[row.device].n
    /\ \A dev \in SeqRange(PersonDevices) :
          ~IsNone(last_written_ts[dev]) =>
              /\ ~IsNone(last_written_ts'[dev])
              /\ last_written_ts'[dev].n >= last_written_ts[dev].n

\* C25: within one run of the Excel logger no device has two rows written for
\* the same CurrentVital timestamp: a row is written for a device only when its
\* CurrentVital.ts is strictly greater than the last timestamp written for that
\* device, and that last-written timestamp never decreases
C25_NoRowTwice == []RowsStrictlyLater /\ [][WritesOnlyNewer]_vars

\* the logger wrote d1 twice, for two CurrentVital timestamps, and in a later
\* cycle passed d1 without writing: its row is already in the sheet
C25_Witness ==
    /\ Cardinality(SheetRowsOf(sheet, D1)) = 2
    /\ last_written_ts[D1] = DateTime(L0 + 30)
    /\ lg.pc = "loop"
    /\ lg.todo = <<D2>>
    /\ sheet[Len(sheet)].device = D2

\* the device has a CurrentVital timestamp the logger has not written yet
HasNew(dev) ==
    \E cv \in RowsOf(current_vitals, dev) : ~AlreadyWritten(cv, last_written_ts[dev])

\* the step is a write that failed: the logger was about to write the head of
\* its list, whose workbook is locked
FailedWrite ==
    /\ lg.pc = "loop"
    /\ Head(lg.todo) \in locked
    /\ HasNew(Head(lg.todo))
    /\ lg' # lg

\* a failed write does not stop the logger and does not advance the failed
\* device's last-written timestamp, so its row is tried again
FailedWriteIsRetried ==
    [][FailedWrite => \E dev \in {Head(lg.todo)} :
                          /\ lg' = Asleep
                          /\ last_written_ts' = last_written_ts
                          /\ sheet' = sheet
                          /\ HasNew(dev)']_vars

\* C26: a failed write for one person does not stop the Excel logger, and
\* every other person that has a new CurrentVital timestamp is eventually
\* written even if that one person's write keeps failing
C26_OthersEventuallyWritten ==
    \A dev \in SeqRange(PersonDevices) :
        (HasNew(dev) /\ dev \notin locked) ~> (~HasNew(dev) \/ dev \in locked)

-----------------------------------------------------------------------------
(* The two segmenters on one list *)

\* the readings of the export as the points api_tracking builds from rows
AsPoints(rs) ==
    [i \in 1..Len(rs) |-> [dt |-> rs[i].ts, lat |-> rs[i].lat.n, lon |-> rs[i].lon.n]]

\* the trips api_tracking returns for these points: sorted, grouped, built
ReadTripsOf(rs) ==
    BuildPayload(GroupTrips(SortByDt(AsPoints(rs)), <<>>, <<>>, JNull), <<>>, 0).trips

\* a point of the read and a point of the export are the same reading: same
\* position, same time of day (the read prints UTC, the export local time)
SamePoint(p, q) ==
    /\ p.lat = q.lat
    /\ p.lng = q.lng
    /\ (p.ts + TZ_OFFSET) % MinutesPerDay = q.time

\* C29: for the same time-ordered list of geolocated readings of one device
\* and day, the tracking export and the tracking read partition the readings
\* into the same segments: same number of segments, same points in each, same
\* segment ids
C29_ExportAndReadPartitionAlike ==
    Exported =>
        \E read \in {ReadTripsOf(trk.readings)} :
            /\ Len(read) = Len(trk.trips)
            /\ \A s \in 1..Len(trk.trips) :
                  s <= Len(read) =>
                      /\ read[s].id = trk.trips[s].id
                      /\ Len(read[s].points) = Len(trk.trips[s].points)
                      /\ \A i \in 1..Len(trk.trips[s].points) :
                            i <= Len(read[s].points) =>
                                SamePoint(read[s].points[i], trk.trips[s].points[i])

-----------------------------------------------------------------------------
(* The tracking read and the order of the upstream rows *)

\* the rows with the neighbours k and k + 1 exchanged
Swap(rows, k) == [rows EXCEPT ![k] = rows[k + 1], ![k + 1] = rows[k]]

\* what api_tracking builds from rows for the device and date of the request
TripsOfRows(rows) ==
    BuildPayload(GroupTrips(SortByDt(TrackPoints(rows, trk.device_id, trk.target_date.n)),
                            <<>>, <<>>, JNull), <<>>, 0)

\* every exchange of two neighbouring rows leaves the result as it is: same
\* segments, same points in each, same distances. Every row list is met by some
\* request, so this is the same result for every permutation of the rows
SameForEveryOrder ==
    \A k \in 1..(Len(trk.rows) - 1) :
        \E b \in {TripsOfRows(Swap(trk.rows, k))} :
            /\ b.trips = trk.trips
            /\ ReportedTotal(b) = trk.total_km

\* no two points of the request carry the same timestamp at different positions
NoTiedPoints ==
    \A i \in 1..Len(trk.points) : \A j \in 1..Len(trk.points) :
        trk.points[i].dt = trk.points[j].dt => trk.points[i] = trk.points[j]

\* C30 (as stated): the result of api_tracking does not depend on the order in
\* which the upstream returned the rows: for any two permutations of the same
\* rows of the requested device and date it returns the same segments, the same
\* points in each segment and the same distances
C30_SameForEveryRowOrder == Tracked => SameForEveryOrder

\* C30 (amended): the same, for rows of which no two qualifying ones carry the
\* same timestamp at different positions
C30_SameForEveryOrderOfUntiedRows == (Tracked /\ NoTiedPoints) => SameForEveryOrder

\* the upstream answered four rows of the day out of time order, with distinct
\* timestamps, and the read returned two segments
C30_Witness ==
    /\ Tracked
    /\ NoTiedPoints
    /\ Len(trk.points) = 4
    /\ TrackPoints(trk.rows, trk.device_id, trk.target_date.n) # trk.points
    /\ Len(trk.trips) = 2

=============================================================================
